---- MODULE Spec2Model ----
(***************************************************************************)
(* LiquidMoney: the ledger (src/database/queries.ts) and the backup codec  *)
(* (services/backupService.ts) as a state machine.                         *)
(*                                                                         *)
(* The SQLite tables are sets of rows keyed by id.  A synchronous function *)
(* of queries.ts is one action; an async function of backupService.ts is a *)
(* process that takes one step per await.                                   *)
(***************************************************************************)
EXTENDS Integers, Sequences, FiniteSets, TLC

VARIABLES
    wallets,        \* rows of table wallets
    transactions,   \* rows of table transactions
    clock,          \* the system clock read by nowISO() and new Date()
    last,           \* the last ledger call that returned or threw
    files,          \* the image files that exist on the device
    backupFile,     \* the backup document exportBackup wrote last
    exp,            \* the exportBackup call in flight and its outcome
    imp,            \* the importBackup call in flight and its outcome
    calls,          \* how many exportBackup and importBackup calls were made
    tz,             \* the device's timezone: local time = UTC + tz
    view,           \* what the last statistics query returned
    idb,            \* the importData call in flight, statement by statement
    dbm,            \* db.ts: the module's handle and flag, and the database
    store           \* the StoreProvider's state

vars == <<wallets, transactions, clock, last, files, backupFile, exp, imp, calls,
          tz, view, idb, dbm, store>>
ledgerVars == <<wallets, transactions, clock, last>>
backupVars == <<files, backupFile, exp, imp, calls>>
queryVars == <<tz, view, idb>>
appVars == <<dbm, store>>

----------------------------------------------------------------------------
(* Bounds of the model *)

MaxWallets == 2
MaxTxns == 2
MaxExports == 1
MaxImports == 1
MaxClock == 4           \* the clock stops here, in hours
MonthLen == 3           \* the hours of a calendar month
FrameHours == 1
MaxOpens == 2

----------------------------------------------------------------------------
(* Values *)

NULL == "null"

WalletIdPool == 1..MaxWallets
TxnIdPool == 1..MaxTxns
NoId == 0

Types == {"IN", "OUT"}

\* Money is counted in units of 10000.  The type and the amount of the
\* transaction form, the initial balance of the wallet form, and the current
\* balance of the form that edits it directly.
TxnInputs ==
    { [type |-> "IN", amount |-> 5], [type |-> "IN", amount |-> 20],
      [type |-> "OUT", amount |-> 5] }
Balances == {50}
DirectBalances == {50}

\* A path outside the app's image directory, as the image picker gives.
TmpImg == "file:///cache/picked.jpg"

\* The inputs of the wallet form and of the transaction form.
WalletForms ==
    { [name |-> "cash", icon |-> NULL, imageUri |-> NULL],
      [name |-> "bank", icon |-> "PiggyBank", imageUri |-> NULL] }
TxnForms == { [reason |-> NULL, imageUri |-> NULL] }

----------------------------------------------------------------------------
(* SQL helpers *)

RECURSIVE SumAmount(_)
SumAmount(S) ==
    IF S = {} THEN 0
    ELSE LET t == CHOOSE x \in S : TRUE
         IN  t.amount + SumAmount(S \ {t})

\* SELECT COALESCE(SUM(amount), 0) FROM transactions WHERE wallet_id = ? AND type = ?
TotalOf(txs, walletId, type) ==
    SumAmount({t \in txs : t.wallet_id = walletId /\ t.type = type})

WalletExists(ws, id) == \E w \in ws : w.id = id
TxnExists(txs, id) == \E t \in txs : t.id = id

\* src/database/queries.ts: icon ?? 'Wallet'
IconOrDefault(icon) == IF icon = NULL THEN "Wallet" ELSE icon

----------------------------------------------------------------------------
(* recalculateBalance: current_balance := initial_balance + SUM(IN) - SUM(OUT) *)

\* a reconciliation that adds the outflow instead of subtracting it
recalculateBalance_AddsOut(ws, txs, walletId) ==
    IF ~WalletExists(ws, walletId)
    THEN ws
    ELSE { IF w.id = walletId
           THEN [w EXCEPT !.current_balance =
                    w.initial_balance + TotalOf(txs, walletId, "IN")
                                      + TotalOf(txs, walletId, "OUT")]
           ELSE w : w \in ws }

\* a reconciliation that starts from the stored current_balance
recalculateBalance_Accumulates(ws, txs, walletId) ==
    IF ~WalletExists(ws, walletId)
    THEN ws
    ELSE { IF w.id = walletId
           THEN [w EXCEPT !.current_balance =
                    w.current_balance + TotalOf(txs, walletId, "IN")
                                      - TotalOf(txs, walletId, "OUT")]
           ELSE w : w \in ws }

recalculateBalance(ws, txs, walletId) ==
    IF ~WalletExists(ws, walletId)
    THEN ws
    ELSE { IF w.id = walletId
           THEN [w EXCEPT !.current_balance =
                    w.initial_balance + TotalOf(txs, walletId, "IN")
                                      - TotalOf(txs, walletId, "OUT")]
           ELSE w : w \in ws }

----------------------------------------------------------------------------
(* The record of the last call *)

\* op: the function; ok: FALSE when it threw; id: the row it names; wid: the
\* wallet it reconciles; old: the wallet the transaction was in before;
\* cascaded: the number of transactions a wallet's deletion removed.
Call(op, ok, id, wid, old, cascaded) ==
    [op |-> op, ok |-> ok, id |-> id, wid |-> wid, old |-> old,
     cascaded |-> cascaded]

----------------------------------------------------------------------------
(* Wallet CRUD *)

\* a creation that starts the wallet at a current_balance of zero
createWallet_ZeroCurrent(name, initialBalance, imageUri, icon) ==
    \E id \in WalletIdPool :
        /\ ~WalletExists(wallets, id)
        /\ wallets' = wallets \cup
              {[id |-> id, name |-> name,
                initial_balance |-> initialBalance,
                current_balance |-> 0,
                image_uri |-> imageUri,
                icon |-> IconOrDefault(icon),
                created_at |-> clock]}
        /\ last' = Call("createWallet", TRUE, id, id, NoId, 0)
        /\ UNCHANGED <<transactions, clock, backupVars, queryVars>>

createWallet(name, initialBalance, imageUri, icon) ==
    \E id \in WalletIdPool :
        /\ ~WalletExists(wallets, id)
        /\ wallets' = wallets \cup
              {[id |-> id, name |-> name,
                initial_balance |-> initialBalance,
                current_balance |-> initialBalance,
                image_uri |-> imageUri,
                icon |-> IconOrDefault(icon),
                created_at |-> clock]}
        /\ last' = Call("createWallet", TRUE, id, id, NoId, 0)
        /\ UNCHANGED <<transactions, clock, backupVars, queryVars>>

\* an update that does not reconcile
updateWallet_NoReconcile(id, name, initialBalance, imageUri, icon) ==
    /\ wallets' =
          { IF w.id = id
            THEN [w EXCEPT !.name = name, !.initial_balance = initialBalance,
                           !.image_uri = imageUri, !.icon = IconOrDefault(icon)]
            ELSE w : w \in wallets }
    /\ last' = Call("updateWallet", TRUE, id, id, NoId, 0)
    /\ UNCHANGED <<transactions, clock, backupVars, queryVars>>

updateWallet(id, name, initialBalance, imageUri, icon) ==
    /\ wallets' = recalculateBalance(
          { IF w.id = id
            THEN [w EXCEPT !.name = name, !.initial_balance = initialBalance,
                           !.image_uri = imageUri, !.icon = IconOrDefault(icon)]
            ELSE w : w \in wallets },
          transactions, id)
    /\ last' = Call("updateWallet", TRUE, id, id, NoId, 0)
    /\ UNCHANGED <<transactions, clock, backupVars, queryVars>>

\* a deletion whose cascade does not happen
deleteWallet_NoCascade(id) ==
    /\ wallets' = {w \in wallets : w.id # id}
    /\ transactions' = transactions
    /\ last' = Call("deleteWallet", TRUE, id, id, NoId,
                   Cardinality({t \in transactions : t.wallet_id = id}))
    /\ UNCHANGED <<clock, backupVars, queryVars>>

\* DELETE FROM wallets WHERE id = ?  with ON DELETE CASCADE on transactions.wallet_id
deleteWallet(id) ==
    /\ wallets' = {w \in wallets : w.id # id}
    /\ transactions' = {t \in transactions : t.wallet_id # id}
    /\ last' = Call("deleteWallet", TRUE, id, id, NoId,
                   Cardinality({t \in transactions : t.wallet_id = id}))
    /\ UNCHANGED <<clock, backupVars, queryVars>>

\* an inverse solve with the signs of the two sums exchanged
updateWalletDirect_WrongSign(id, name, newCurrentBalance, icon) ==
    LET totalIn == TotalOf(transactions, id, "IN")
        totalOut == TotalOf(transactions, id, "OUT")
        newInitialBalance == newCurrentBalance + totalIn - totalOut
    IN  /\ wallets' = { IF w.id = id
                        THEN [w EXCEPT !.name = name,
                                       !.initial_balance = newInitialBalance,
                                       !.current_balance = newCurrentBalance,
                                       !.icon = IconOrDefault(icon)]
                        ELSE w : w \in wallets }
        /\ last' = Call("updateWalletDirect", TRUE, id, id, NoId, 0)
        /\ UNCHANGED <<transactions, clock, backupVars, queryVars>>

\* a direct update in two statements, of which only the first one ran
updateWalletDirect_InitialOnly(id, name, newCurrentBalance, icon) ==
    LET totalIn == TotalOf(transactions, id, "IN")
        totalOut == TotalOf(transactions, id, "OUT")
        newInitialBalance == newCurrentBalance - totalIn + totalOut
    IN  /\ wallets' = { IF w.id = id
                        THEN [w EXCEPT !.name = name,
                                       !.initial_balance = newInitialBalance,
                                       !.icon = IconOrDefault(icon)]
                        ELSE w : w \in wallets }
        /\ last' = Call("updateWalletDirect", TRUE, id, id, NoId, 0)
        /\ UNCHANGED <<transactions, clock, backupVars, queryVars>>

\* a direct update that inserts the wallet when there is none
updateWalletDirect_Upserts(id, name, newCurrentBalance, icon) ==
    LET totalIn == TotalOf(transactions, id, "IN")
        totalOut == TotalOf(transactions, id, "OUT")
        newInitialBalance == newCurrentBalance - totalIn + totalOut
        row == [id |-> id, name |-> name,
                initial_balance |-> newInitialBalance,
                current_balance |-> newCurrentBalance,
                image_uri |-> NULL, icon |-> IconOrDefault(icon),
                created_at |-> clock]
    IN  /\ wallets' = { IF w.id = id
                        THEN [w EXCEPT !.name = name,
                                       !.initial_balance = newInitialBalance,
                                       !.current_balance = newCurrentBalance,
                                       !.icon = IconOrDefault(icon)]
                        ELSE w : w \in wallets }
                      \cup (IF WalletExists(wallets, id) THEN {} ELSE {row})
        /\ last' = Call("updateWalletDirect", TRUE, id, id, NoId, 0)
        /\ UNCHANGED <<transactions, clock, backupVars, queryVars>>

updateWalletDirect(id, name, newCurrentBalance, icon) ==
    LET totalIn == TotalOf(transactions, id, "IN")
        totalOut == TotalOf(transactions, id, "OUT")
        newInitialBalance == newCurrentBalance - totalIn + totalOut
    IN  /\ wallets' = { IF w.id = id
                        THEN [w EXCEPT !.name = name,
                                       !.initial_balance = newInitialBalance,
                                       !.current_balance = newCurrentBalance,
                                       !.icon = IconOrDefault(icon)]
                        ELSE w : w \in wallets }
        /\ last' = Call("updateWalletDirect", TRUE, id, id, NoId, 0)
        /\ UNCHANGED <<transactions, clock, backupVars, queryVars>>

----------------------------------------------------------------------------
(* Transaction CRUD *)

\* SELECT wallet_id FROM transactions WHERE id = ?  (null when there is no row)
OldWalletId(txs, id) ==
    IF TxnExists(txs, id) THEN (CHOOSE t \in txs : t.id = id).wallet_id ELSE NoId

\* SELECT * FROM wallets WHERE id = ?  (null when there is no row)
getWalletById(ws, id) ==
    IF WalletExists(ws, id) THEN CHOOSE w \in ws : w.id = id ELSE NULL

\* SELECT * FROM transactions WHERE wallet_id = ?  (the rows, whatever their order)
getTransactionsByWallet(txs, walletId) == {t \in txs : t.wallet_id = walletId}

\* a createTransaction that reconciles every wallet
createTransaction_ReconcilesAll(walletId, type, amount, reason, imageUri) ==
    \E id \in TxnIdPool :
        /\ ~TxnExists(transactions, id)
        /\ IF WalletExists(wallets, walletId)
           THEN LET txs == transactions \cup
                        {[id |-> id, wallet_id |-> walletId, type |-> type,
                          amount |-> amount, reason |-> reason,
                          image_uri |-> imageUri, created_at |-> clock]}
                IN  /\ transactions' = txs
                    /\ wallets' =
                         {getWalletById(recalculateBalance(wallets, txs, w.id),
                                        w.id) : w \in wallets}
                    /\ last' = Call("createTransaction", TRUE, id, walletId, NoId, 0)
           ELSE /\ last' = Call("createTransaction", FALSE, id, walletId, NoId, 0)
                /\ UNCHANGED <<wallets, transactions>>
        /\ UNCHANGED <<clock, backupVars, queryVars>>

createTransaction(walletId, type, amount, reason, imageUri) ==
    \E id \in TxnIdPool :
        /\ ~TxnExists(transactions, id)
        /\ IF WalletExists(wallets, walletId)
           THEN LET txs == transactions \cup
                        {[id |-> id, wallet_id |-> walletId, type |-> type,
                          amount |-> amount, reason |-> reason,
                          image_uri |-> imageUri, created_at |-> clock]}
                IN  /\ transactions' = txs
                    /\ wallets' = recalculateBalance(wallets, txs, walletId)
                    /\ last' = Call("createTransaction", TRUE, id, walletId, NoId, 0)
           ELSE \* FOREIGN KEY constraint failed: the INSERT throws
                /\ last' = Call("createTransaction", FALSE, id, walletId, NoId, 0)
                /\ UNCHANGED <<wallets, transactions>>
        /\ UNCHANGED <<clock, backupVars, queryVars>>

\* an update that reconciles the new wallet only
updateTransaction_NewWalletOnly(id, walletId, type, amount, reason, imageUri) ==
    LET oldWalletId == OldWalletId(transactions, id)
        txs == { IF t.id = id
                 THEN [t EXCEPT !.wallet_id = walletId, !.type = type,
                                !.amount = amount, !.reason = reason,
                                !.image_uri = imageUri]
                 ELSE t : t \in transactions }
    IN  /\ IF TxnExists(transactions, id) /\ ~WalletExists(wallets, walletId)
           THEN /\ last' = Call("updateTransaction", FALSE, id, walletId, oldWalletId, 0)
                /\ UNCHANGED <<wallets, transactions>>
           ELSE /\ transactions' = txs
                /\ wallets' = recalculateBalance(wallets, txs, walletId)
                /\ last' = Call("updateTransaction", TRUE, id, walletId, oldWalletId, 0)
        /\ UNCHANGED <<clock, backupVars, queryVars>>

\* an update that leaves the amount as it was
updateTransaction_KeepsAmount(id, walletId, type, amount, reason, imageUri) ==
    LET oldWalletId == OldWalletId(transactions, id)
        txs == { IF t.id = id
                 THEN [t EXCEPT !.wallet_id = walletId, !.type = type,
                                !.reason = reason, !.image_uri = imageUri]
                 ELSE t : t \in transactions }
    IN  /\ IF TxnExists(transactions, id) /\ ~WalletExists(wallets, walletId)
           THEN /\ last' = Call("updateTransaction", FALSE, id, walletId, oldWalletId, 0)
                /\ UNCHANGED <<wallets, transactions>>
           ELSE /\ transactions' = txs
                /\ wallets' =
                     LET ws1 == recalculateBalance(wallets, txs, walletId)
                     IN  IF oldWalletId # NoId /\ oldWalletId # walletId
                         THEN recalculateBalance(ws1, txs, oldWalletId)
                         ELSE ws1
                /\ last' = Call("updateTransaction", TRUE, id, walletId, oldWalletId, 0)
        /\ UNCHANGED <<clock, backupVars, queryVars>>

updateTransaction(id, walletId, type, amount, reason, imageUri) ==
    LET oldWalletId == OldWalletId(transactions, id)
        txs == { IF t.id = id
                 THEN [t EXCEPT !.wallet_id = walletId, !.type = type,
                                !.amount = amount, !.reason = reason,
                                !.image_uri = imageUri]
                 ELSE t : t \in transactions }
    IN  /\ IF TxnExists(transactions, id) /\ ~WalletExists(wallets, walletId)
           THEN \* FOREIGN KEY constraint failed: the UPDATE throws
                /\ last' = Call("updateTransaction", FALSE, id, walletId, oldWalletId, 0)
                /\ UNCHANGED <<wallets, transactions>>
           ELSE /\ transactions' = txs
                /\ wallets' =
                     LET ws1 == recalculateBalance(wallets, txs, walletId)
                     IN  IF oldWalletId # NoId /\ oldWalletId # walletId
                         THEN recalculateBalance(ws1, txs, oldWalletId)
                         ELSE ws1
                /\ last' = Call("updateTransaction", TRUE, id, walletId, oldWalletId, 0)
        /\ UNCHANGED <<clock, backupVars, queryVars>>

\* a deletion that does not reconcile the wallet
deleteTransaction_NoReconcile(id) ==
    /\ transactions' = {t \in transactions : t.id # id}
    /\ wallets' = wallets
    /\ last' = Call("deleteTransaction", TRUE, id,
                   OldWalletId(transactions, id), OldWalletId(transactions, id), 0)
    /\ UNCHANGED <<clock, backupVars, queryVars>>

deleteTransaction(id) ==
    LET walletId == OldWalletId(transactions, id)
        txs == {t \in transactions : t.id # id}
    IN  /\ transactions' = txs
        /\ wallets' = IF walletId # NoId
                      THEN recalculateBalance(wallets, txs, walletId)
                      ELSE wallets
        /\ last' = Call("deleteTransaction", TRUE, id, walletId, walletId, 0)
        /\ UNCHANGED <<clock, backupVars, queryVars>>

----------------------------------------------------------------------------
(* backupService.ts: image files *)

\* The bytes of an image, base64-encoded.
ImageData == "QUJD"

IMAGE_DIR == "/documents/liquidmoney_images"
WalletImagePath(id) == IMAGE_DIR \o "/wallet_" \o ToString(id) \o ".jpg"
TxnImagePath(id) == IMAGE_DIR \o "/txn_" \o ToString(id) \o ".jpg"
\* the file saveImageToLocal makes of a picked image: <prefix>_<time>_<random>.<ext>
SavedImg == IMAGE_DIR \o "/wallet_1762192800000_k3x9ab.jpg"
ImageDirPaths ==
    {WalletImagePath(id) : id \in WalletIdPool} \cup
    {TxnImagePath(id) : id \in TxnIdPool} \cup {SavedImg}

\* a read that gives the empty string where it should give null
fileToBase64_EmptyOnFailure(fs, filePath, readFails) ==
    IF filePath \notin DOMAIN fs THEN NULL
    ELSE IF readFails THEN ""
    ELSE fs[filePath]

\* fileToBase64: null when the file is missing or the read throws
fileToBase64(fs, filePath, readFails) ==
    IF filePath \notin DOMAIN fs THEN NULL
    ELSE IF readFails THEN NULL
    ELSE fs[filePath]

\* RNFS.writeFile(filePath, base64Data) in base64ToFile
WriteFile(fs, filePath, data) ==
    [p \in DOMAIN fs \cup {filePath} |-> IF p = filePath THEN data ELSE fs[p]]

\* saveImageToLocal: RNFS.copyFile(tempUri, destPath)
saveImageToLocal(fs, destPath) == WriteFile(fs, destPath, ImageData)

\* RNFS.unlink(IMAGE_DIR) then RNFS.mkdir(IMAGE_DIR); a failing unlink is swallowed
clearImageDirectory(fs, unlinkFails) ==
    IF unlinkFails THEN fs
    ELSE [p \in DOMAIN fs \ ImageDirPaths |-> fs[p]]

\* JavaScript truthiness of a string | null
Truthy(v) == v # NULL /\ v # ""

----------------------------------------------------------------------------
(* backupService.ts: the backup document *)

BACKUP_VERSION == 1

BackupWallet(w, imageBase64) ==
    [id |-> w.id, name |-> w.name, initial_balance |-> w.initial_balance,
     current_balance |-> w.current_balance, image_uri |-> w.image_uri,
     icon |-> w.icon, created_at |-> w.created_at,
     image_base64 |-> imageBase64]

BackupTransaction(t, imageBase64) ==
    [id |-> t.id, wallet_id |-> t.wallet_id, type |-> t.type,
     amount |-> t.amount, reason |-> t.reason, image_uri |-> t.image_uri,
     created_at |-> t.created_at, image_base64 |-> imageBase64]

\* walletsKind / transactionsKind: "array", "missing" or "object" (what JSON.parse
\* gave for the field); wallets / transactions: its elements when it is an array.
BackupData(walletsKind, ws, transactionsKind, ts, exportedAt) ==
    [version |-> BACKUP_VERSION, app |-> "LiquidMoney",
     exported_at |-> exportedAt,
     walletsKind |-> walletsKind, wallets |-> ws,
     transactionsKind |-> transactionsKind, transactions |-> ts]

\* { image_base64: _unused, ...walletFields } with image_uri overwritten
ImportedWallet(bw, newImageUri) ==
    [id |-> bw.id, name |-> bw.name, initial_balance |-> bw.initial_balance,
     current_balance |-> bw.current_balance, image_uri |-> newImageUri,
     icon |-> bw.icon, created_at |-> bw.created_at]

\* a copy that loses the reason
ImportedTransaction_DropsReason(bt, newImageUri) ==
    [id |-> bt.id, wallet_id |-> bt.wallet_id, type |-> bt.type,
     amount |-> bt.amount, reason |-> NULL, image_uri |-> newImageUri,
     created_at |-> bt.created_at]

ImportedTransaction(bt, newImageUri) ==
    [id |-> bt.id, wallet_id |-> bt.wallet_id, type |-> bt.type,
     amount |-> bt.amount, reason |-> bt.reason, image_uri |-> newImageUri,
     created_at |-> bt.created_at]

\* a validation that forgets the transactions
ValidBackup_WalletsOnly(backup) == backup.walletsKind = "array"

\* importBackup step 3: both fields present and arrays
ValidBackup(backup) ==
    /\ backup.walletsKind = "array"
    /\ backup.transactionsKind = "array"

----------------------------------------------------------------------------
(* queries.ts: getExportData and importData *)

\* SELECT * FROM <table> ORDER BY created_at ASC: rows of equal created_at come
\* in an order SQLite does not fix.
OrderedByCreatedAt(rows) ==
    LET n == Cardinality(rows)
    IN  { s \in [1..n -> rows] :
            /\ \A i, j \in 1..n : i # j => s[i] # s[j]
            /\ \A i, j \in 1..n : i < j => s[i].created_at <= s[j].created_at }

\* INSERT INTO wallets ... for data.wallets[i..]; a PRIMARY KEY violation throws
RECURSIVE InsertWallets(_, _, _)
InsertWallets(ws, rows, i) ==
    IF i > Len(rows) THEN [wallets |-> ws, ok |-> TRUE]
    ELSE IF WalletExists(ws, rows[i].id) THEN [wallets |-> ws, ok |-> FALSE]
    ELSE InsertWallets(
            ws \cup {[id |-> rows[i].id, name |-> rows[i].name,
                      initial_balance |-> rows[i].initial_balance,
                      current_balance |-> rows[i].current_balance,
                      image_uri |-> rows[i].image_uri,
                      icon |-> IconOrDefault(rows[i].icon),
                      created_at |-> rows[i].created_at]},
            rows, i + 1)

\* inserts on a connection that does not enforce the foreign key
RECURSIVE InsertTransactions_NoForeignKey(_, _, _, _)
InsertTransactions_NoForeignKey(ws, txs, rows, i) ==
    IF i > Len(rows) THEN [transactions |-> txs, ok |-> TRUE]
    ELSE IF \/ TxnExists(txs, rows[i].id)
            \/ rows[i].type \notin Types
         THEN [transactions |-> txs, ok |-> FALSE]
    ELSE InsertTransactions_NoForeignKey(
            ws,
            txs \cup {[id |-> rows[i].id, wallet_id |-> rows[i].wallet_id,
                       type |-> rows[i].type, amount |-> rows[i].amount,
                       reason |-> rows[i].reason,
                       image_uri |-> rows[i].image_uri,
                       created_at |-> rows[i].created_at]},
            rows, i + 1)

\* INSERT INTO transactions ... for data.transactions[i..]; a PRIMARY KEY,
\* FOREIGN KEY or CHECK(type IN ('IN','OUT')) violation throws
RECURSIVE InsertTransactions(_, _, _, _)
InsertTransactions(ws, txs, rows, i) ==
    IF i > Len(rows) THEN [transactions |-> txs, ok |-> TRUE]
    ELSE IF \/ TxnExists(txs, rows[i].id)
            \/ ~WalletExists(ws, rows[i].wallet_id)
            \/ rows[i].type \notin Types
         THEN [transactions |-> txs, ok |-> FALSE]
    ELSE InsertTransactions(
            ws,
            txs \cup {[id |-> rows[i].id, wallet_id |-> rows[i].wallet_id,
                       type |-> rows[i].type, amount |-> rows[i].amount,
                       reason |-> rows[i].reason,
                       image_uri |-> rows[i].image_uri,
                       created_at |-> rows[i].created_at]},
            rows, i + 1)

\* for (const w of walletIds) recalculateBalance(w.id)
RECURSIVE RecalculateAll(_, _, _)
RecalculateAll(ws, txs, ids) ==
    IF ids = {} THEN ws
    ELSE LET id == CHOOSE x \in ids : TRUE
         IN  RecalculateAll(recalculateBalance(ws, txs, id), txs, ids \ {id})

\* an import that trusts the document's current_balance
importData_NoRecalculate(data) ==
    LET w == InsertWallets({}, data.wallets, 1)
        t == InsertTransactions(w.wallets, {}, data.transactions, 1)
    IN  IF ~w.ok
        THEN [wallets |-> w.wallets, transactions |-> {}, ok |-> FALSE]
        ELSE [wallets |-> w.wallets, transactions |-> t.transactions,
              ok |-> t.ok]

\* importData: DELETE FROM transactions; DELETE FROM wallets; the inserts of the
\* wallets, then of the transactions, then the reconciliation of every wallet.
\* A statement that throws leaves what the statements before it did.
importData(data) ==
    LET afterDelete == [wallets |-> {}, transactions |-> {}]
        w == InsertWallets(afterDelete.wallets, data.wallets, 1)
        t == InsertTransactions(w.wallets, afterDelete.transactions,
                                data.transactions, 1)
    IN  IF ~w.ok
        THEN [wallets |-> w.wallets, transactions |-> {}, ok |-> FALSE]
        ELSE IF ~t.ok
        THEN [wallets |-> w.wallets, transactions |-> t.transactions,
              ok |-> FALSE]
        ELSE [wallets |-> RecalculateAll(w.wallets, t.transactions,
                                         {x.id : x \in w.wallets}),
              transactions |-> t.transactions, ok |-> TRUE]

----------------------------------------------------------------------------
(* exportBackup *)

\* the image references of the rows an export has read from the database
ImageUrisOf(rw, rt) ==
    {rw[k].image_uri : k \in 1..Len(rw)} \cup {rt[k].image_uri : k \in 1..Len(rt)}

\* present: the images of the rows that were there when the export started,
\* kept for the claims to read; exportBackup does not look at it
IdleExport(result, err) ==
    [pc |-> "idle", rawW |-> <<>>, rawT |-> <<>>, outW |-> <<>>, outT |-> <<>>,
     present |-> {}, result |-> result, err |-> err]

\* where the export loop stands: the next await
ExportPc(e) ==
    IF Len(e.outW) < Len(e.rawW) THEN "wallets"
    ELSE IF Len(e.outT) < Len(e.rawT) THEN "txns"
    ELSE "write"

\* rawData = getExportData()
ExportStart ==
    /\ exp.pc = "idle"
    /\ calls.exports < MaxExports
    /\ calls' = [calls EXCEPT !.exports = @ + 1]
    /\ \E rw \in OrderedByCreatedAt(wallets),
          rt \in OrderedByCreatedAt(transactions) :
          LET e == [pc |-> "wallets", rawW |-> rw, rawT |-> rt,
                    outW |-> <<>>, outT |-> <<>>, present |-> DOMAIN files \cap ImageUrisOf(rw, rt),
                    result |-> "none", err |-> NULL]
          IN  exp' = [e EXCEPT !.pc = ExportPc(e)]
    /\ UNCHANGED <<ledgerVars, queryVars, files, backupFile, imp, appVars>>

\* one turn of the loop over rawData.wallets
ExportWallet(readFails) ==
    /\ exp.pc = "wallets"
    /\ LET wallet == exp.rawW[Len(exp.outW) + 1]
           imageBase64 == IF Truthy(wallet.image_uri)
                          THEN fileToBase64(files, wallet.image_uri, readFails)
                          ELSE NULL
           e == [exp EXCEPT !.outW = Append(@, BackupWallet(wallet, imageBase64))]
       IN  exp' = [e EXCEPT !.pc = ExportPc(e)]
    /\ UNCHANGED <<ledgerVars, queryVars, files, backupFile, imp, calls, appVars>>

\* one turn of the loop over rawData.transactions
ExportTransaction(readFails) ==
    /\ exp.pc = "txns"
    /\ LET txn == exp.rawT[Len(exp.outT) + 1]
           imageBase64 == IF Truthy(txn.image_uri)
                          THEN fileToBase64(files, txn.image_uri, readFails)
                          ELSE NULL
           e == [exp EXCEPT !.outT = Append(@, BackupTransaction(txn, imageBase64))]
       IN  exp' = [e EXCEPT !.pc = ExportPc(e)]
    /\ UNCHANGED <<ledgerVars, queryVars, files, backupFile, imp, calls, appVars>>

\* RNFS.writeFile(filePath, json): the document is written, or the call throws
ExportWrite(writeFails) ==
    /\ exp.pc = "write"
    /\ IF writeFails
       THEN /\ exp' = IdleExport("throw", "write")
            /\ UNCHANGED backupFile
       ELSE /\ exp' = IdleExport("path", NULL)
            /\ backupFile' = <<BackupData("array", exp.outW, "array", exp.outT,
                                          clock)>>
    /\ UNCHANGED <<ledgerVars, queryVars, files, imp, calls, appVars>>

----------------------------------------------------------------------------
(* importBackup *)

OPERATION_CANCELED == "OPERATION_CANCELED"

\* the code property of what each failing call throws
ErrorCode(err) ==
    CASE err = "canceled" -> OPERATION_CANCELED
      [] err = "pick" -> "UNABLE_TO_OPEN_FILE_TYPE"
      [] err \in {"read", "mkdir", "image_write"} -> "EUNSPECIFIED"
      [] OTHER -> NULL

\* a catch block that reports every failure as a cancel
importCatch_AlwaysFalse(err) == "false"

\* the catch block: false for the picker's cancel, anything else is rethrown
importCatch(err) ==
    IF ErrorCode(err) = OPERATION_CANCELED THEN "false" ELSE "throw"

\* src: the file the user picked; doc: what JSON.parse gave, while in flight
IdleImport(src, result, err) ==
    [pc |-> "idle", src |-> src, doc |-> <<>>, outW |-> <<>>, outT |-> <<>>,
     result |-> result, err |-> err]

Thrown(src, err) == IdleImport(src, importCatch(err), err)

\* where the import loop stands: the next await
ImportPc(i) ==
    IF Len(i.outW) < Len(i.doc[1].wallets) THEN "wallets"
    ELSE IF Len(i.outT) < Len(i.doc[1].transactions) THEN "txns"
    ELSE "db"

\* documents that did not come from this device's last export
WrongBalanceDoc ==
    BackupData("array",
        << [id |-> 1, name |-> "cash", initial_balance |-> 50,
            current_balance |-> 999, image_uri |-> TmpImg, icon |-> "Wallet",
            created_at |-> 0, image_base64 |-> ""] >>,
        "array",
        << [id |-> 1, wallet_id |-> 1, type |-> "OUT", amount |-> 20,
            reason |-> NULL, image_uri |-> TmpImg, created_at |-> 0,
            image_base64 |-> ImageData] >>,
        0)
OrphanTxnDoc ==
    BackupData("array",
        << [id |-> 1, name |-> "cash", initial_balance |-> 50,
            current_balance |-> 0, image_uri |-> NULL, icon |-> "Wallet",
            created_at |-> 0, image_base64 |-> NULL] >>,
        "array",
        << [id |-> 1, wallet_id |-> 2, type |-> "IN", amount |-> 5,
            reason |-> NULL, image_uri |-> NULL, created_at |-> 0,
            image_base64 |-> NULL] >>,
        0)
\* two wallets, a transaction of the first, and one of a wallet that is not there
PartialDoc ==
    BackupData("array",
        << [id |-> 1, name |-> "cash", initial_balance |-> 50,
            current_balance |-> 999, image_uri |-> NULL, icon |-> "Wallet",
            created_at |-> 0, image_base64 |-> NULL],
           [id |-> 2, name |-> "bank", initial_balance |-> 50,
            current_balance |-> 999, image_uri |-> NULL, icon |-> "PiggyBank",
            created_at |-> 0, image_base64 |-> NULL] >>,
        "array",
        << [id |-> 1, wallet_id |-> 1, type |-> "IN", amount |-> 5,
            reason |-> NULL, image_uri |-> NULL, created_at |-> 0,
            image_base64 |-> NULL],
           [id |-> 2, wallet_id |-> 3, type |-> "IN", amount |-> 5,
            reason |-> NULL, image_uri |-> NULL, created_at |-> 0,
            image_base64 |-> NULL] >>,
        0)
NoWalletsDoc == BackupData("missing", <<>>, "array", <<>>, 0)
NoTransactionsDoc == BackupData("array", <<>>, "object", <<>>, 0)
ForeignFiles ==
    {"wrongBalance", "orphanTxn", "partial", "noWallets", "noTransactions"}

\* the content of a file the picker offers
FileContent(src) ==
    CASE src = "wrongBalance" -> WrongBalanceDoc
      [] src = "orphanTxn" -> OrphanTxnDoc
      [] src = "partial" -> PartialDoc
      [] src = "noWallets" -> NoWalletsDoc
      [] src = "noTransactions" -> NoTransactionsDoc
      [] src = "backup" -> backupFile[1]

PickableFiles ==
    ForeignFiles \cup (IF backupFile # <<>> THEN {"backup"} ELSE {})

\* const [pickedFile] = await pick(...)
ImportPick(outcome) ==
    /\ imp.pc = "idle"
    /\ calls.imports < MaxImports
    /\ calls' = [calls EXCEPT !.imports = @ + 1]
    /\ CASE outcome = "canceled" -> imp' = Thrown("none", "canceled")
         [] outcome = "failed" -> imp' = Thrown("none", "pick")
         [] outcome = "nouri" -> imp' = IdleImport("none", "false", NULL)
         [] OTHER ->
              \E src \in PickableFiles :
                  imp' = [pc |-> "read", src |-> src, doc |-> <<>>,
                          outW |-> <<>>, outT |-> <<>>,
                          result |-> "none", err |-> NULL]
    /\ UNCHANGED <<ledgerVars, queryVars, files, backupFile, exp, appVars>>

\* RNFS.readFile, JSON.parse and the validation of the structure
ImportRead(outcome) ==
    /\ imp.pc = "read"
    /\ CASE outcome = "readfail" -> imp' = Thrown(imp.src, "read")
         [] outcome = "badjson" -> imp' = Thrown(imp.src, "parse")
         [] OTHER ->
              LET backup == FileContent(imp.src)
              IN  IF ValidBackup(backup)
                  THEN imp' = [imp EXCEPT !.pc = "clear", !.doc = <<backup>>]
                  ELSE imp' = Thrown(imp.src, "invalid")
    /\ UNCHANGED <<ledgerVars, queryVars, files, backupFile, exp, calls, appVars>>

\* await clearImageDirectory()
ImportClear(unlinkFails, mkdirFails) ==
    /\ imp.pc = "clear"
    /\ files' = clearImageDirectory(files, unlinkFails)
    /\ IF mkdirFails
       THEN imp' = Thrown(imp.src, "mkdir")
       ELSE imp' = [imp EXCEPT !.pc = ImportPc(imp)]
    /\ UNCHANGED <<ledgerVars, queryVars, backupFile, exp, calls, appVars>>

\* one turn of the loop over backup.wallets
ImportWallet(writeFails) ==
    /\ imp.pc = "wallets"
    /\ LET bw == imp.doc[1].wallets[Len(imp.outW) + 1]
           filePath == WalletImagePath(bw.id)
       IN  IF Truthy(bw.image_base64)
           THEN IF writeFails
                THEN /\ imp' = Thrown(imp.src, "image_write")
                     /\ UNCHANGED files
                ELSE /\ files' = WriteFile(files, filePath, bw.image_base64)
                     /\ LET i == [imp EXCEPT !.outW =
                                     Append(@, ImportedWallet(bw, filePath))]
                        IN  imp' = [i EXCEPT !.pc = ImportPc(i)]
           ELSE /\ UNCHANGED files
                /\ LET i == [imp EXCEPT !.outW =
                                Append(@, ImportedWallet(bw, NULL))]
                   IN  imp' = [i EXCEPT !.pc = ImportPc(i)]
    /\ UNCHANGED <<ledgerVars, queryVars, backupFile, exp, calls, appVars>>

\* one turn of the loop over backup.transactions
ImportTransaction(writeFails) ==
    /\ imp.pc = "txns"
    /\ LET bt == imp.doc[1].transactions[Len(imp.outT) + 1]
           filePath == TxnImagePath(bt.id)
       IN  IF Truthy(bt.image_base64)
           THEN IF writeFails
                THEN /\ imp' = Thrown(imp.src, "image_write")
                     /\ UNCHANGED files
                ELSE /\ files' = WriteFile(files, filePath, bt.image_base64)
                     /\ LET i == [imp EXCEPT !.outT =
                                     Append(@, ImportedTransaction(bt, filePath))]
                        IN  imp' = [i EXCEPT !.pc = ImportPc(i)]
           ELSE /\ UNCHANGED files
                /\ LET i == [imp EXCEPT !.outT =
                                Append(@, ImportedTransaction(bt, NULL))]
                   IN  imp' = [i EXCEPT !.pc = ImportPc(i)]
    /\ UNCHANGED <<ledgerVars, queryVars, backupFile, exp, calls, appVars>>

\* importData({ wallets, transactions }); return true
ImportDb ==
    /\ imp.pc = "db"
    /\ LET r == importData([wallets |-> imp.outW, transactions |-> imp.outT])
       IN  /\ wallets' = r.wallets
           /\ transactions' = r.transactions
           /\ imp' = IF r.ok THEN IdleImport(imp.src, "true", NULL)
                     ELSE Thrown(imp.src, "db")
    /\ UNCHANGED <<clock, last, queryVars, files, backupFile, exp, calls, appVars>>

----------------------------------------------------------------------------
(* The wallet form keeps the image the user picked *)

SaveImage ==
    /\ SavedImg \notin DOMAIN files
    /\ files' = saveImageToLocal(files, SavedImg)
    /\ UNCHANGED <<ledgerVars, queryVars, backupFile, exp, imp, calls, appVars>>

----------------------------------------------------------------------------

\* importData is not running; result: how the last call ended
IdleImportData(result) ==
    [pc |-> "idle", data |-> <<>>, i |-> 0, ids |-> <<>>, result |-> result]

\* an importData that deletes the wallets first
ImportDataOrder_WalletsFirst ==
    << "deleteWallets", "deleteTransactions", "insertWallets",
       "insertTransactions", "selectIds", "recalculate" >>

\* the statements of importData in the order of its text
ImportDataOrder ==
    << "deleteTransactions", "deleteWallets", "insertWallets",
       "insertTransactions", "selectIds", "recalculate" >>

\* the statement after the block pc, or the return
AfterBlock(pc) ==
    LET k == CHOOSE j \in 1..Len(ImportDataOrder) : ImportDataOrder[j] = pc
    IN  IF k = Len(ImportDataOrder) THEN "return" ELSE ImportDataOrder[k + 1]

\* control moves to the block pc; a return ends the call
GoTo(pc) ==
    IF pc = "return" THEN IdleImportData("returned")
    ELSE [idb EXCEPT !.pc = pc, !.i = 1]

(* db.ts: the module's state and the database file *)

\* db: the module holds a connection (let db); dbAvailable: the flag;
\* opens: how often open() gave a connection; foreignKeys: PRAGMA
\* foreign_keys of the connection held; walletsTable, transactionsTable: the
\* tables of the file liquidmoney.db; ready: an initDatabase has returned
\* true since the module was loaded or the database was last closed; op,
\* result: the last call of the module and how it ended.
\* The module as it is loaded, on a device where the file does not exist yet
LoadedModule ==
    [db |-> FALSE, dbAvailable |-> FALSE, opens |-> 0, foreignKeys |-> FALSE,
     walletsTable |-> FALSE, transactionsTable |-> FALSE, ready |-> FALSE,
     op |-> "none", result |-> "none"]

\* the module after an initDatabase that ran to its end
OpenedModule ==
    [db |-> TRUE, dbAvailable |-> TRUE, opens |-> 1, foreignKeys |-> TRUE,
     walletsTable |-> TRUE, transactionsTable |-> TRUE, ready |-> TRUE,
     op |-> "initDatabase", result |-> "true"]

\* where a statement of the schema can throw a storage error; the PRAGMA
\* does not touch the file
SchemaFailures == {"none", "wallets", "transactions"}

\* initDatabase: the module after the call.  With a handle: return true.
\* Without the native module, or when open() throws: flag off, return false.
\* Else db = open(...), flag on, PRAGMA foreign_keys = ON, CREATE TABLE IF NOT
\* EXISTS wallets, the ALTER TABLE in its own try, CREATE TABLE IF NOT EXISTS
\* transactions, return true; a CREATE TABLE that throws ends the call there.
initDatabase(nativeModule, openThrows, failsAt) ==
    IF dbm.db
    THEN [dbm EXCEPT !.ready = TRUE, !.op = "initDatabase", !.result = "true"]
    ELSE IF ~nativeModule \/ openThrows
    THEN [dbm EXCEPT !.dbAvailable = FALSE,
                     !.op = "initDatabase", !.result = "false"]
    ELSE LET opened == [dbm EXCEPT !.db = TRUE, !.dbAvailable = TRUE,
                                   !.opens = @ + 1, !.foreignKeys = TRUE,
                                   !.op = "initDatabase"]
         IN  CASE failsAt = "wallets" -> [opened EXCEPT !.result = "throw"]
               [] failsAt = "transactions" ->
                    [opened EXCEPT !.walletsTable = TRUE, !.result = "throw"]
               [] OTHER ->
                    [opened EXCEPT !.walletsTable = TRUE,
                                   !.transactionsTable = TRUE,
                                   !.ready = TRUE, !.result = "true"]

isDatabaseAvailable == dbm.dbAvailable

\* getDatabase: the handle, or the throw of line 108
getDatabase ==
    [dbm EXCEPT !.op = "getDatabase",
                !.result = IF dbm.db THEN "handle" ELSE "throw"]

\* a closeDatabase that leaves the flag on
closeDatabase_KeepsFlag ==
    IF dbm.db
    THEN [dbm EXCEPT !.db = FALSE, !.foreignKeys = FALSE,
                     !.ready = FALSE, !.op = "closeDatabase", !.result = "void"]
    ELSE [dbm EXCEPT !.op = "closeDatabase", !.result = "void"]

\* closeDatabase: db.close(); db = null; dbAvailable = false
closeDatabase ==
    IF dbm.db
    THEN [dbm EXCEPT !.db = FALSE, !.dbAvailable = FALSE, !.foreignKeys = FALSE,
                     !.ready = FALSE, !.op = "closeDatabase", !.result = "void"]
    ELSE [dbm EXCEPT !.op = "closeDatabase", !.result = "void"]

----------------------------------------------------------------------------
(* queries.ts on the database as db.ts left it *)

\* getDatabase() gives a handle and the tables the statement names are there
CanQuery(tables) == dbm.db /\ \A t \in tables : dbm[t]

\* the call throws before it has written anything
Throws(op, id, wid) ==
    /\ last' = Call(op, FALSE, id, wid, NoId, 0)
    /\ UNCHANGED <<wallets, transactions, clock, backupVars, queryVars>>

\* createWallet as dbCreateWallet, called without an icon
dbCreateWallet(name, initialBalance, imageUri) ==
    IF CanQuery({"walletsTable"})
    THEN createWallet(name, initialBalance, imageUri, NULL)
    ELSE Throws("createWallet", NoId, NoId)

\* updateWallet as dbUpdateWallet: the UPDATE, then recalculateBalance, whose
\* SELECT on transactions throws after the UPDATE when that table is missing
dbUpdateWallet(id, name, initialBalance, imageUri) ==
    IF ~CanQuery({"walletsTable"}) THEN Throws("updateWallet", id, id)
    ELSE IF dbm.transactionsTable \/ ~WalletExists(wallets, id)
    THEN updateWallet(id, name, initialBalance, imageUri, NULL)
    ELSE /\ wallets' =
               { IF w.id = id
                 THEN [w EXCEPT !.name = name,
                                !.initial_balance = initialBalance,
                                !.image_uri = imageUri,
                                !.icon = IconOrDefault(NULL)]
                 ELSE w : w \in wallets }
         /\ last' = Call("updateWallet", FALSE, id, id, NoId, 0)
         /\ UNCHANGED <<transactions, clock, backupVars, queryVars>>

dbDeleteWallet(id) ==
    IF CanQuery({"walletsTable"}) THEN deleteWallet(id)
    ELSE Throws("deleteWallet", id, id)

dbCreateTransaction(walletId, type, amount, reason, imageUri) ==
    IF CanQuery({"transactionsTable"})
    THEN createTransaction(walletId, type, amount, reason, imageUri)
    ELSE Throws("createTransaction", NoId, walletId)

dbUpdateTransaction(id, walletId, type, amount, reason, imageUri) ==
    IF CanQuery({"transactionsTable"})
    THEN updateTransaction(id, walletId, type, amount, reason, imageUri)
    ELSE Throws("updateTransaction", id, walletId)

dbDeleteTransaction(id) ==
    IF CanQuery({"transactionsTable"}) THEN deleteTransaction(id)
    ELSE Throws("deleteTransaction", id, NoId)

\* SELECT * FROM wallets ORDER BY created_at DESC: rows of equal created_at
\* come in an order SQLite does not fix
getAllWallets(ws) ==
    LET n == Cardinality(ws)
    IN  { s \in [1..n -> ws] :
            /\ \A i, j \in 1..n : i # j => s[i] # s[j]
            /\ \A i, j \in 1..n : i < j => s[i].created_at >= s[j].created_at }

----------------------------------------------------------------------------
(* StoreProvider: the state it keeps and its actions *)

\* useState: isReady, wallets, transactions (of the wallet on view), and
\* currentWallet, which is null (no row) or one row
UnmountedStore ==
    [isReady |-> FALSE, wallets |-> <<>>, transactions |-> {},
     currentWallet |-> <<>>]

\* the provider after its effect has run on an empty database
MountedStore == [UnmountedStore EXCEPT !.isReady = TRUE]

\* getWalletById(id) as the store keeps it
RowOrNull(ws, id) ==
    IF WalletExists(ws, id) THEN << CHOOSE w \in ws : w.id = id >> ELSE <<>>

\* currentWallet?.id === id
IsCurrentWallet(st, id) ==
    st.currentWallet # <<>> /\ st.currentWallet[1].id = id

\* refreshWallets: setWallets(getAllWallets()); a throw is caught inside
AfterRefreshWallets(st, ws) ==
    IF CanQuery({"walletsTable"})
    THEN {[st EXCEPT !.wallets = rows] : rows \in getAllWallets(ws)}
    ELSE {st}

\* refreshTransactions(walletId): setTransactions, setCurrentWallet and
\* setWallets, or none of them when the first query throws
AfterRefreshTransactions(st, ws, txs, walletId) ==
    IF CanQuery({"transactionsTable"})
    THEN {[st EXCEPT !.transactions = getTransactionsByWallet(txs, walletId),
                     !.currentWallet = RowOrNull(ws, walletId),
                     !.wallets = rows] : rows \in getAllWallets(ws)}
    ELSE {st}

\* the effect of the provider: initDatabase(), the first load, setIsReady(true)
StoreMount(nativeModule, openThrows, failsAt) ==
    /\ ~store.isReady
    /\ dbm' = initDatabase(nativeModule, openThrows, failsAt)
    /\ IF dbm'.result = "true"
       THEN \E rows \in getAllWallets(wallets) :
               store' = [store EXCEPT !.wallets = rows, !.isReady = TRUE]
       ELSE store' = [store EXCEPT !.isReady = TRUE]
    /\ UNCHANGED <<ledgerVars, backupVars, queryVars>>

addWallet(name, initialBalance, imageUri) ==
    /\ dbCreateWallet(name, initialBalance, imageUri)
    /\ store' \in (IF last'.ok THEN AfterRefreshWallets(store, wallets')
                   ELSE {store})
    /\ UNCHANGED dbm

editWallet(id, name, initialBalance, imageUri) ==
    /\ dbUpdateWallet(id, name, initialBalance, imageUri)
    /\ store' \in
          (IF last'.ok
           THEN { IF IsCurrentWallet(store, id)
                  THEN [st EXCEPT !.currentWallet = RowOrNull(wallets', id)]
                  ELSE st : st \in AfterRefreshWallets(store, wallets') }
           ELSE {store})
    /\ UNCHANGED dbm

removeWallet(id) ==
    /\ dbDeleteWallet(id)
    /\ store' \in
          (IF last'.ok
           THEN { IF IsCurrentWallet(store, id)
                  THEN [st EXCEPT !.currentWallet = <<>>, !.transactions = {}]
                  ELSE st : st \in AfterRefreshWallets(store, wallets') }
           ELSE {store})
    /\ UNCHANGED dbm

\* setCurrentWallet(getWalletById(id)), and the transactions of a wallet found
selectWallet(id) ==
    /\ store' =
          IF ~CanQuery({"walletsTable"}) THEN store
          ELSE IF WalletExists(wallets, id) /\ CanQuery({"transactionsTable"})
          THEN [store EXCEPT !.currentWallet = RowOrNull(wallets, id),
                             !.transactions =
                                 getTransactionsByWallet(transactions, id)]
          ELSE [store EXCEPT !.currentWallet = RowOrNull(wallets, id)]
    /\ UNCHANGED <<ledgerVars, backupVars, queryVars, dbm>>

addTransaction(walletId, type, amount, reason, imageUri) ==
    /\ dbCreateTransaction(walletId, type, amount, reason, imageUri)
    /\ store' \in
          (IF last'.ok
           THEN AfterRefreshTransactions(store, wallets', transactions', walletId)
           ELSE {store})
    /\ UNCHANGED dbm

editTransaction(id, walletId, type, amount, reason, imageUri) ==
    /\ dbUpdateTransaction(id, walletId, type, amount, reason, imageUri)
    /\ store' \in
          (IF last'.ok
           THEN AfterRefreshTransactions(store, wallets', transactions', walletId)
           ELSE {store})
    /\ UNCHANGED dbm

removeTransaction(id, walletId) ==
    /\ dbDeleteTransaction(id)
    /\ store' \in
          (IF last'.ok
           THEN AfterRefreshTransactions(store, wallets', transactions', walletId)
           ELSE {store})
    /\ UNCHANGED dbm

----------------------------------------------------------------------------
\* no statistics query was made yet
NoView == [op |-> "none", walletId |-> NoId, stats |-> <<>>]

\* the state of a fresh installation, on a device in the timezone z
BootApp(z, module, provider) ==
    /\ wallets = {}
    /\ transactions = {}
    /\ clock = 0
    /\ last = Call("init", TRUE, NoId, NoId, NoId, 0)
    /\ files = [p \in {} |-> ImageData]
    /\ backupFile = <<>>
    /\ exp = IdleExport("none", NULL)
    /\ imp = IdleImport("none", "none", NULL)
    /\ calls = [exports |-> 0, imports |-> 0]
    /\ tz = z
    /\ view = NoView
    /\ idb = IdleImportData("none")
    /\ dbm = module
    /\ store = provider

\* the same after initDatabase and the store's first load
Boot(z) == BootApp(z, OpenedModule, MountedStore)

Init == Boot(0)

CreateWallet ==
    \E f \in WalletForms, b \in Balances :
        /\ createWallet(f.name, b, f.imageUri, f.icon)
        /\ UNCHANGED appVars
UpdateWallet ==
    \E id \in WalletIdPool, f \in WalletForms, b \in Balances :
        /\ updateWallet(id, f.name, b, f.imageUri, f.icon)
        /\ UNCHANGED appVars
DeleteWallet ==
    /\ \E id \in WalletIdPool : deleteWallet(id)
    /\ UNCHANGED appVars
UpdateWalletDirect ==
    \E id \in WalletIdPool, f \in WalletForms, b \in DirectBalances :
        /\ updateWalletDirect(id, f.name, b, f.icon)
        /\ UNCHANGED appVars
CreateTransaction ==
    \E wid \in WalletIdPool, i \in TxnInputs, f \in TxnForms :
        /\ createTransaction(wid, i.type, i.amount, f.reason, f.imageUri)
        /\ UNCHANGED appVars
UpdateTransaction ==
    \E id \in TxnIdPool, wid \in WalletIdPool, i \in TxnInputs,
       f \in TxnForms :
        /\ updateTransaction(id, wid, i.type, i.amount, f.reason, f.imageUri)
        /\ UNCHANGED appVars
DeleteTransaction ==
    /\ \E id \in TxnIdPool : deleteTransaction(id)
    /\ UNCHANGED appVars

Next ==
    \/ CreateWallet
    \/ UpdateWallet
    \/ DeleteWallet
    \/ UpdateWalletDirect
    \/ CreateTransaction
    \/ UpdateTransaction
    \/ DeleteTransaction

Spec == Init /\ [][Next]_vars

(* The ledger together with the backup codec: wallets with a picked image and
   transactions with a reason are added while one exportBackup and one
   importBackup run, each taking a step at a time. *)

AddWallet ==
    /\ SavedImg \in DOMAIN files
    /\ createWallet("bank", 50, SavedImg, "PiggyBank")
    /\ UNCHANGED appVars
AddTransaction ==
    \E wid \in WalletIdPool, ty \in Types :
        /\ createTransaction(wid, ty, 5, "lunch", NULL)
        /\ UNCHANGED appVars
Export ==
    \/ ExportStart
    \/ \E readFails \in BOOLEAN : ExportWallet(readFails)
    \/ \E readFails \in BOOLEAN : ExportTransaction(readFails)
    \/ \E writeFails \in BOOLEAN : ExportWrite(writeFails)
Import ==
    \/ \E outcome \in {"canceled", "failed", "nouri", "picked"} : ImportPick(outcome)
    \/ \E outcome \in {"readfail", "badjson", "ok"} : ImportRead(outcome)
    \/ \E unlinkFails, mkdirFails \in BOOLEAN : ImportClear(unlinkFails, mkdirFails)
    \/ \E writeFails \in BOOLEAN : ImportWallet(writeFails)
    \/ \E writeFails \in BOOLEAN : ImportTransaction(writeFails)
    \/ ImportDb

BackupNext ==
    \/ AddWallet
    \/ AddTransaction
    \/ Export
    \/ Import
    \/ SaveImage

SpecBackup == Init /\ [][BackupNext]_vars

(* The ledger after an import that may have stopped half way: importBackup
   of a document that did not come from this device, and the calls of
   queries.ts on what it left. *)

RecalculateBalance ==
    \E id \in WalletIdPool :
        /\ wallets' = recalculateBalance(wallets, transactions, id)
        /\ last' = Call("recalculateBalance", TRUE, id, id, NoId, 0)
        /\ UNCHANGED <<transactions, clock, backupVars, queryVars, appVars>>

HealNext ==
    \/ Import
    \/ UpdateWallet
    \/ DeleteWallet
    \/ UpdateWalletDirect
    \/ CreateTransaction
    \/ UpdateTransaction
    \/ DeleteTransaction
    \/ RecalculateBalance

SpecHeal == Init /\ [][HealNext]_vars

(* importData statement by statement.  The function is synchronous: while it
   runs no other call of queries.ts does, and what a statement that throws
   leaves behind is what the database holds afterwards. *)

\* what importBackup hands to importData for a document
PayloadOf(doc) ==
    [wallets |->
        [k \in 1..Len(doc.wallets) |->
            ImportedWallet(doc.wallets[k],
                IF Truthy(doc.wallets[k].image_base64)
                THEN WalletImagePath(doc.wallets[k].id) ELSE NULL)],
     transactions |->
        [k \in 1..Len(doc.transactions) |->
            ImportedTransaction(doc.transactions[k],
                IF Truthy(doc.transactions[k].image_base64)
                THEN TxnImagePath(doc.transactions[k].id) ELSE NULL)]]

ImportPayloads ==
    {PayloadOf(WrongBalanceDoc), PayloadOf(OrphanTxnDoc), PayloadOf(PartialDoc)}

ImportDataIdle == idb.pc = "idle"

\* importData(data) is called
ImportDataCall ==
    /\ ImportDataIdle
    /\ idb.result = "none"
    /\ \E data \in ImportPayloads :
          idb' = [pc |-> ImportDataOrder[1], data |-> <<data>>, i |-> 1,
                  ids |-> <<>>, result |-> "none"]
    /\ UNCHANGED <<ledgerVars, backupVars, tz, view, appVars>>

\* db.execute('DELETE FROM transactions;')
ImportDataDeleteTransactions ==
    /\ idb.pc = "deleteTransactions"
    /\ transactions' = {}
    /\ idb' = GoTo(AfterBlock(idb.pc))
    /\ UNCHANGED <<wallets, clock, last, backupVars, tz, view, appVars>>

\* db.execute('DELETE FROM wallets;') with ON DELETE CASCADE
ImportDataDeleteWallets ==
    /\ idb.pc = "deleteWallets"
    /\ wallets' = {}
    /\ transactions' = {}
    /\ idb' = GoTo(AfterBlock(idb.pc))
    /\ UNCHANGED <<clock, last, backupVars, tz, view, appVars>>

\* one turn of for (const wallet of data.wallets), or the end of the loop
ImportDataInsertWallet ==
    /\ idb.pc = "insertWallets"
    /\ LET rows == idb.data[1].wallets
       IN  IF idb.i > Len(rows)
           THEN /\ idb' = GoTo(AfterBlock(idb.pc))
                /\ UNCHANGED wallets
           ELSE LET r == InsertWallets(wallets, <<rows[idb.i]>>, 1)
                IN  /\ wallets' = r.wallets
                    /\ idb' = IF r.ok THEN [idb EXCEPT !.i = @ + 1]
                              ELSE IdleImportData("thrown")
    /\ UNCHANGED <<transactions, clock, last, backupVars, tz, view, appVars>>

\* one turn of for (const txn of data.transactions), or the end of the loop
ImportDataInsertTransaction ==
    /\ idb.pc = "insertTransactions"
    /\ LET rows == idb.data[1].transactions
       IN  IF idb.i > Len(rows)
           THEN /\ idb' = GoTo(AfterBlock(idb.pc))
                /\ UNCHANGED transactions
           ELSE LET r == InsertTransactions(wallets, transactions,
                                           <<rows[idb.i]>>, 1)
                IN  /\ transactions' = r.transactions
                    /\ idb' = IF r.ok THEN [idb EXCEPT !.i = @ + 1]
                              ELSE IdleImportData("thrown")
    /\ UNCHANGED <<wallets, clock, last, backupVars, tz, view, appVars>>

\* SELECT id FROM wallets: the ids in an order SQLite does not fix
ImportDataSelectIds ==
    /\ idb.pc = "selectIds"
    /\ \E rows \in OrderedByCreatedAt(wallets) :
          idb' = [GoTo(AfterBlock(idb.pc)) EXCEPT
                     !.ids = [k \in 1..Len(rows) |-> rows[k].id]]
    /\ UNCHANGED <<ledgerVars, backupVars, tz, view, appVars>>

\* one turn of for (const w of walletIds) recalculateBalance(w.id), or the end
ImportDataRecalculate ==
    /\ idb.pc = "recalculate"
    /\ IF idb.i > Len(idb.ids)
       THEN /\ idb' = GoTo(AfterBlock(idb.pc))
            /\ UNCHANGED wallets
       ELSE /\ wallets' = recalculateBalance(wallets, transactions,
                                             idb.ids[idb.i])
            /\ idb' = [idb EXCEPT !.i = @ + 1]
    /\ UNCHANGED <<transactions, clock, last, backupVars, tz, view, appVars>>

SeedWallet ==
    /\ ImportDataIdle
    /\ createWallet("cash", 50, NULL, NULL)
    /\ UNCHANGED appVars
SeedTransaction ==
    /\ ImportDataIdle
    /\ \E wid \in WalletIdPool, ty \in Types :
          /\ createTransaction(wid, ty, 5, NULL, NULL)
          /\ UNCHANGED appVars

ImportDataNext ==
    \/ SeedWallet
    \/ SeedTransaction
    \/ ImportDataCall
    \/ ImportDataDeleteTransactions
    \/ ImportDataDeleteWallets
    \/ ImportDataInsertWallet
    \/ ImportDataInsertTransaction
    \/ ImportDataSelectIds
    \/ ImportDataRecalculate

SpecImportData == Init /\ [][ImportDataNext]_vars

(* The statistics: time passes on a device in some timezone, wallets and
   transactions are created, and the statistics screen asks for the six
   months.  Instants are hours of UTC; a calendar month has MonthLen hours
   and month m begins at the instant m * MonthLen of the calendar's zone. *)

\* the offsets of the device's zone from UTC, in hours: local = UTC + tz
TzOffsets == {0 - 1, 0, 1}

\* now.getFullYear(), now.getMonth(): the month of an instant on the device
LocalMonth(t, z) == (t + z) \div MonthLen

\* a list that runs from the current month back
TrailingMonths_NewestFirst(now, z) ==
    [k \in 1..6 |-> LocalMonth(now, z) - k + 1]

\* for (let i = 5; i >= 0; i--) new Date(year, month - i, 1): 'YYYY-MM' labels
TrailingMonths(now, z) ==
    [k \in 1..6 |-> LocalMonth(now, z) - 6 + k]

\* `${month}-01T00:00:00.000Z`: the first instant of the month in UTC
StartDate(month) == month * MonthLen

\* new Date(y, m, 1).toISOString(): the first instant of the next month on the
\* device, written in UTC
EndDate(month, z) == (month + 1) * MonthLen - z

\* WHERE [wallet_id = ? AND] created_at >= ? AND created_at < ?, one type
MonthTotal(txs, walletId, type, month, z) ==
    SumAmount({t \in txs :
                 /\ (walletId # NoId => t.wallet_id = walletId)
                 /\ t.type = type
                 /\ t.created_at >= StartDate(month)
                 /\ t.created_at < EndDate(month, z)})

getMonthlyStats(txs, walletId, now, z) ==
    LET months == TrailingMonths(now, z)
    IN  [k \in 1..6 |->
            [month |-> months[k],
             totalIn |-> MonthTotal(txs, walletId, "IN", months[k], z),
             totalOut |-> MonthTotal(txs, walletId, "OUT", months[k], z)]]

\* an all-time count that forgets the wallet it was asked for
getOverallStats_CountsAll(txs, walletId) ==
    LET scope == {t \in txs : walletId = NoId \/ t.wallet_id = walletId}
    IN  [totalIn |-> SumAmount({t \in scope : t.type = "IN"}),
         totalOut |-> SumAmount({t \in scope : t.type = "OUT"}),
         txCount |-> Cardinality(txs)]

\* SELECT type, COALESCE(SUM(amount), 0) ... [WHERE wallet_id = ?] GROUP BY type
\* and SELECT COUNT(*) ... [WHERE wallet_id = ?]; no walletId: all wallets
getOverallStats(txs, walletId) ==
    LET scope == {t \in txs : walletId = NoId \/ t.wallet_id = walletId}
    IN  [totalIn |-> SumAmount({t \in scope : t.type = "IN"}),
         totalOut |-> SumAmount({t \in scope : t.type = "OUT"}),
         txCount |-> Cardinality(scope)]

StatsInit == \E z \in TzOffsets : Boot(z)

\* an hour passes
Tick ==
    /\ clock < MaxClock
    /\ clock' = clock + 1
    /\ UNCHANGED <<wallets, transactions, last, backupVars, queryVars, appVars>>

StatsCreateWallet ==
    /\ createWallet("cash", 50, NULL, NULL)
    /\ UNCHANGED appVars
StatsCreateTransaction ==
    \E wid \in WalletIdPool, ty \in Types :
        /\ createTransaction(wid, ty, 5, NULL, NULL)
        /\ UNCHANGED appVars

\* the statistics screen: getMonthlyStats() or getMonthlyStats(walletId)
GetMonthlyStats ==
    \E walletId \in WalletIdPool \cup {NoId} :
        /\ view' = [op |-> "getMonthlyStats", walletId |-> walletId,
                    stats |-> getMonthlyStats(transactions, walletId, clock, tz)]
        /\ UNCHANGED <<ledgerVars, backupVars, tz, idb, appVars>>

StatsNext ==
    \/ Tick
    \/ StatsCreateWallet
    \/ StatsCreateTransaction
    \/ GetMonthlyStats

SpecStats == StatsInit /\ [][StatsNext]_vars

(* The ledger with the amounts of the worked example: a wallet of 100000,
   an inflow of 50000, outflows of 20000 and 30000. *)

ScenarioBalances == {100000}
ScenarioInputs ==
    { [type |-> "IN", amount |-> 50000], [type |-> "OUT", amount |-> 20000],
      [type |-> "OUT", amount |-> 30000] }

ScenarioCreateWallet ==
    \E b \in ScenarioBalances :
        /\ createWallet("cash", b, NULL, NULL)
        /\ UNCHANGED appVars
ScenarioCreateTransaction ==
    \E wid \in WalletIdPool, i \in ScenarioInputs :
        /\ createTransaction(wid, i.type, i.amount, NULL, NULL)
        /\ UNCHANGED appVars
ScenarioUpdateTransaction ==
    \E id \in TxnIdPool, wid \in WalletIdPool, i \in ScenarioInputs :
        /\ updateTransaction(id, wid, i.type, i.amount, NULL, NULL)
        /\ UNCHANGED appVars

ScenarioNext ==
    \/ ScenarioCreateWallet
    \/ ScenarioCreateTransaction
    \/ ScenarioUpdateTransaction
    \/ DeleteTransaction

SpecScenario == Init /\ [][ScenarioNext]_vars

(* The wallet form and the form that edits the balance directly: wallets
   are created at different hours, with or without a picked image, they
   receive transactions, and updateWalletDirect is called on them. *)

\* the wallet form: the image is the one saveImageToLocal kept, or none
FrameCreateWallet ==
    \E b \in Balances, img \in {NULL} \cup ({SavedImg} \cap DOMAIN files) :
        /\ createWallet("cash", b, img, NULL)
        /\ UNCHANGED appVars
FrameCreateTransaction ==
    \E wid \in WalletIdPool, ty \in Types :
        /\ createTransaction(wid, ty, 5, NULL, NULL)
        /\ UNCHANGED appVars

\* an hour passes while the forms are open
FrameTick == clock < FrameHours /\ Tick

FrameNext ==
    \/ FrameTick
    \/ SaveImage
    \/ FrameCreateWallet
    \/ FrameCreateTransaction
    \/ UpdateWalletDirect

SpecFrame == Init /\ [][FrameNext]_vars

(* The module db.ts on its own: initDatabase, getDatabase and closeDatabase
   are called in any order, opens and schema statements may fail, and wallets
   and transactions are written through whatever handle the module holds. *)

DbInit == BootApp(0, LoadedModule, UnmountedStore)

InitDatabase ==
    /\ dbm.db \/ dbm.opens < MaxOpens
    /\ \E nativeModule, openThrows \in BOOLEAN, failsAt \in SchemaFailures :
          dbm' = initDatabase(nativeModule, openThrows, failsAt)
    /\ UNCHANGED <<ledgerVars, backupVars, queryVars, store>>
GetDatabase ==
    /\ dbm' = getDatabase
    /\ UNCHANGED <<ledgerVars, backupVars, queryVars, store>>
CloseDatabase ==
    /\ dbm' = closeDatabase
    /\ UNCHANGED <<ledgerVars, backupVars, queryVars, store>>
DbCreateWallet ==
    /\ dbCreateWallet("cash", 50, NULL)
    /\ UNCHANGED appVars
DbCreateTransaction ==
    /\ \E wid \in WalletIdPool, ty \in Types :
          dbCreateTransaction(wid, ty, 5, NULL, NULL)
    /\ UNCHANGED appVars

DbNext ==
    \/ InitDatabase
    \/ GetDatabase
    \/ CloseDatabase
    \/ DbCreateWallet
    \/ DbCreateTransaction

SpecDb == DbInit /\ [][DbNext]_vars

(* The StoreProvider over db.ts and queries.ts: the provider mounts, and the
   screens call its actions. *)

\* the initial balances the wallet form is given
StoreBalances == {50, 70}

StoreAddWallet ==
    /\ store.isReady
    /\ addWallet("cash", 50, NULL)
StoreEditWallet ==
    /\ store.isReady
    /\ \E id \in WalletIdPool, b \in StoreBalances :
          editWallet(id, "bank", b, NULL)
StoreRemoveWallet ==
    /\ store.isReady
    /\ \E id \in WalletIdPool : removeWallet(id)
StoreSelectWallet ==
    /\ store.isReady
    /\ \E id \in WalletIdPool : selectWallet(id)
StoreAddTransaction ==
    /\ store.isReady
    /\ \E wid \in WalletIdPool, ty \in Types :
          addTransaction(wid, ty, 5, NULL, NULL)
StoreEditTransaction ==
    /\ store.isReady
    /\ \E id \in TxnIdPool, wid \in WalletIdPool :
          editTransaction(id, wid, "OUT", 20, NULL, NULL)
StoreRemoveTransaction ==
    /\ store.isReady
    /\ \E id \in TxnIdPool, wid \in WalletIdPool : removeTransaction(id, wid)

StoreNext ==
    \/ \E nativeModule, openThrows \in BOOLEAN, failsAt \in SchemaFailures :
          StoreMount(nativeModule, openThrows, failsAt)
    \/ StoreAddWallet
    \/ StoreEditWallet
    \/ StoreRemoveWallet
    \/ StoreSelectWallet
    \/ StoreAddTransaction
    \/ StoreEditTransaction
    \/ StoreRemoveTransaction

SpecStore == DbInit /\ [][StoreNext]_vars

(* The foreign key and the type check at work: importData runs statement by
   statement on documents with a transaction of a missing wallet or of a
   type that is neither IN nor OUT, and transactions are created, moved and
   orphaned by the deletion of their wallet around it. *)

\* a document with a transaction whose type the schema does not allow
BadTypeDoc ==
    BackupData("array",
        << [id |-> 1, name |-> "cash", initial_balance |-> 50,
            current_balance |-> 50, image_uri |-> NULL, icon |-> "Wallet",
            created_at |-> 0, image_base64 |-> NULL] >>,
        "array",
        << [id |-> 1, wallet_id |-> 1, type |-> "TRANSFER", amount |-> 5,
            reason |-> NULL, image_uri |-> NULL, created_at |-> 0,
            image_base64 |-> NULL] >>,
        0)

IntegrityImportDataCall ==
    /\ ImportDataIdle
    /\ idb.result = "none"
    /\ idb' = [pc |-> ImportDataOrder[1], data |-> <<PayloadOf(BadTypeDoc)>>,
               i |-> 1, ids |-> <<>>, result |-> "none"]
    /\ UNCHANGED <<ledgerVars, backupVars, tz, view, appVars>>
IntegrityUpdateTransaction ==
    /\ ImportDataIdle
    /\ \E id \in TxnIdPool, wid \in WalletIdPool :
          updateTransaction(id, wid, "OUT", 5, NULL, NULL)
    /\ UNCHANGED appVars
IntegrityDeleteWallet ==
    /\ ImportDataIdle
    /\ \E id \in WalletIdPool : deleteWallet(id)
    /\ UNCHANGED appVars

IntegrityNext ==
    \/ ImportDataNext
    \/ IntegrityImportDataCall
    \/ IntegrityUpdateTransaction
    \/ IntegrityDeleteWallet

SpecIntegrity == Init /\ [][IntegrityNext]_vars

----------------------------------------------------------------------------
(* What the claims speak of *)

WalletById(ws, id) == CHOOSE w \in ws : w.id = id
TxnById(txs, id) == CHOOSE t \in txs : t.id = id

SumIn(txs, id) == SumAmount({t \in txs : t.wallet_id = id /\ t.type = "IN"})
SumOut(txs, id) == SumAmount({t \in txs : t.wallet_id = id /\ t.type = "OUT"})

\* current_balance = initial_balance + sumIN - sumOUT
Balanced(w, txs) ==
    w.current_balance = w.initial_balance + SumIn(txs, w.id) - SumOut(txs, w.id)

\* what a transaction contributes to the balance of its wallet
Signed(type, amount) == IF type = "IN" THEN amount ELSE 0 - amount

----------------------------------------------------------------------------
(* C1: in every state reached by createTransaction, updateTransaction and
   deleteTransaction calls (and the wallet calls), every wallet's
   current_balance is its initial_balance plus the amounts of its IN
   transactions minus the amounts of its OUT transactions. *)
C1_ForwardInvariant == \A w \in wallets : Balanced(w, transactions)

\* a transaction was moved, and some wallet holds both an inflow and an outflow
C1_Witness ==
    /\ last.op = "updateTransaction" /\ last.ok
    /\ last.old \notin {NoId, last.wid}
    /\ \E w \in wallets :
          /\ SumIn(transactions, w.id) > 0
          /\ SumOut(transactions, w.id) > 0
          /\ w.current_balance # w.initial_balance

----------------------------------------------------------------------------
(* C2: after updateWalletDirect(id, name, X) on an existing wallet its
   current_balance is X, its initial_balance is X - sumIN + sumOUT, and a
   following recalculateBalance(id) changes nothing. *)
C2_InverseSolve ==
    [][ \A id \in WalletIdPool, f \in WalletForms, X \in DirectBalances :
          ( /\ last'.op = "updateWalletDirect" /\ WalletExists(wallets, id)
            /\ updateWalletDirect(id, f.name, X, f.icon) )
          => /\ WalletExists(wallets', id)
             /\ WalletById(wallets', id).current_balance = X
             /\ WalletById(wallets', id).initial_balance =
                    X - SumIn(transactions, id) + SumOut(transactions, id)
             /\ \A w \in wallets' : w.id = id =>
                    w.initial_balance + SumIn(transactions', id)
                                      - SumOut(transactions', id) = X
       ]_vars

\* the example of the specification, in units of 10000: X = 500000,
\* sumIN = 200000, sumOUT = 50000 give initial_balance = 350000
C2_Witness ==
    /\ last.op = "updateWalletDirect"
    /\ WalletExists(wallets, last.id)
    /\ SumIn(transactions, last.id) = 20
    /\ SumOut(transactions, last.id) = 5
    /\ WalletById(wallets, last.id).current_balance = 50
    /\ WalletById(wallets, last.id).initial_balance = 35

----------------------------------------------------------------------------
(* C3: updateTransaction that moves a transaction from wallet A to another
   wallet B takes its old contribution out of A's current_balance, puts the
   edited contribution into B's, and leaves both wallets reconciled. *)
C3_MoveReconcilesBoth ==
    [][ \A id \in TxnIdPool, B \in WalletIdPool, i \in TxnInputs, f \in TxnForms :
          LET A == OldWalletId(transactions, id)
          IN  ( /\ last'.op = "updateTransaction"
                /\ A # NoId /\ A # B /\ WalletExists(wallets, B)
                /\ updateTransaction(id, B, i.type, i.amount, f.reason, f.imageUri) )
              => LET t == TxnById(transactions, id)
                 IN  /\ TxnById(transactions', id).wallet_id = B
                     /\ TxnById(transactions', id).type = i.type
                     /\ TxnById(transactions', id).amount = i.amount
                     /\ WalletById(wallets', A).current_balance =
                           WalletById(wallets, A).current_balance
                               - Signed(t.type, t.amount)
                     /\ WalletById(wallets', B).current_balance =
                           WalletById(wallets, B).current_balance
                               + Signed(i.type, i.amount)
                     /\ Balanced(WalletById(wallets', A), transactions')
                     /\ Balanced(WalletById(wallets', B), transactions')
       ]_vars

\* a move that also turned an inflow into an outflow
C3_Witness ==
    /\ last.op = "updateTransaction" /\ last.ok
    /\ last.old \notin {NoId, last.wid}
    /\ WalletExists(wallets, last.old)
    /\ TxnById(transactions, last.id).type = "OUT"
    /\ WalletById(wallets, last.wid).current_balance <
          WalletById(wallets, last.wid).initial_balance
    /\ WalletById(wallets, last.old).current_balance =
          WalletById(wallets, last.old).initial_balance

----------------------------------------------------------------------------
(* What the backup claims speak of: the rows of a document *)

DocWallets(doc) == {doc.wallets[k] : k \in 1..Len(doc.wallets)}
DocTransactions(doc) == {doc.transactions[k] : k \in 1..Len(doc.transactions)}

\* the sum of the document's amounts of one type for one wallet
DocSum(doc, id, type) ==
    SumAmount({t \in DocTransactions(doc) : t.wallet_id = id /\ t.type = type})

\* what reconciliation makes of a document's wallet
DocBalance(doc, bw) ==
    bw.initial_balance + DocSum(doc, bw.id, "IN") - DocSum(doc, bw.id, "OUT")

\* a document row without its image_base64
WalletRowOf(bw) ==
    [id |-> bw.id, name |-> bw.name, initial_balance |-> bw.initial_balance,
     current_balance |-> bw.current_balance, image_uri |-> bw.image_uri,
     icon |-> bw.icon, created_at |-> bw.created_at]
TxnRowOf(bt) ==
    [id |-> bt.id, wallet_id |-> bt.wallet_id, type |-> bt.type,
     amount |-> bt.amount, reason |-> bt.reason, image_uri |-> bt.image_uri,
     created_at |-> bt.created_at]

CarriesImage(row) == row.image_base64 \notin {NULL, ""}

\* importBackup ends with true at this step
ImportSucceeds == imp.pc = "db" /\ imp'.pc = "idle" /\ imp'.result = "true"

----------------------------------------------------------------------------
(* C4: after a successful import every wallet of the store has the
   initial_balance of its document row and current_balance = that
   initial_balance + the document's IN amounts - the document's OUT amounts
   for it, whatever current_balance the document carried. *)
C4_ImportReconciles ==
    [][ImportSucceeds =>
          LET doc == imp.doc[1]
          IN  /\ {w.id : w \in wallets'} = {bw.id : bw \in DocWallets(doc)}
              /\ {t.id : t \in transactions'} = {bt.id : bt \in DocTransactions(doc)}
              /\ \A w \in wallets' :
                    /\ Balanced(w, transactions')
                    /\ \E bw \in DocWallets(doc) :
                          /\ bw.id = w.id
                          /\ w.initial_balance = bw.initial_balance
                          /\ w.current_balance = DocBalance(doc, bw)]_vars

\* the document said 999 for a wallet of 50 with one outflow of 20: it holds 30
C4_Witness ==
    /\ imp.result = "true" /\ imp.src = "wrongBalance"
    /\ \E w \in wallets :
          /\ w.id = 1 /\ w.initial_balance = 50 /\ w.current_balance = 30
          /\ SumOut(transactions, 1) = 20

----------------------------------------------------------------------------
(* C5 as stated: exporting a non-empty dataset and importing the produced
   document gives back every wallet and every transaction with every field
   as the document has it, image_uri and current_balance included. *)
C5_RoundTripAllFields ==
    [][(ImportSucceeds /\ imp.src = "backup" /\ imp.doc[1].wallets # <<>>) =>
          LET doc == imp.doc[1]
          IN  /\ wallets' = {WalletRowOf(bw) : bw \in DocWallets(doc)}
              /\ transactions' = {TxnRowOf(bt) : bt \in DocTransactions(doc)}]_vars

\* the wallet an import makes of an exported row
RestoredWallet(doc, bw) ==
    [WalletRowOf(bw) EXCEPT
        !.image_uri = IF CarriesImage(bw) THEN WalletImagePath(bw.id) ELSE NULL,
        !.current_balance = DocBalance(doc, bw)]
RestoredTransaction(bt) ==
    [TxnRowOf(bt) EXCEPT
        !.image_uri = IF CarriesImage(bt) THEN TxnImagePath(bt.id) ELSE NULL]

(* C5: the document exportBackup writes holds the rows the store had when the
   export began; importing that document with success gives back the same
   wallets and transactions by id and by every field but image_uri, which
   becomes the path made of the row's id when the document carries a
   non-empty image for the row and null otherwise; current_balance is the
   reconciled value, the one before the export for every wallet that was
   reconciled then. *)
C5_RoundTripExceptImageUri ==
    [][/\ (exp.pc = "idle" /\ exp'.pc # "idle") =>
            /\ {exp'.rawW[k] : k \in 1..Len(exp'.rawW)} = wallets
            /\ {exp'.rawT[k] : k \in 1..Len(exp'.rawT)} = transactions
            /\ Len(exp'.rawW) = Cardinality(wallets)
            /\ Len(exp'.rawT) = Cardinality(transactions)
       /\ (exp.pc \in {"wallets", "txns"}) =>
            exp'.rawW = exp.rawW /\ exp'.rawT = exp.rawT
       /\ (exp.pc = "write" /\ exp'.result = "path") =>
            /\ Len(backupFile') = 1
            /\ [k \in 1..Len(exp.rawW) |-> exp.rawW[k]] =
               [k \in 1..Len(backupFile'[1].wallets) |->
                    WalletRowOf(backupFile'[1].wallets[k])]
            /\ [k \in 1..Len(exp.rawT) |-> exp.rawT[k]] =
               [k \in 1..Len(backupFile'[1].transactions) |->
                    TxnRowOf(backupFile'[1].transactions[k])]
       /\ (imp.pc = "read" /\ imp'.pc = "clear" /\ imp.src = "backup") =>
            imp'.doc = backupFile
       /\ (imp.pc \in {"clear", "wallets", "txns"} /\ imp'.pc # "idle") =>
            imp'.doc = imp.doc
       /\ (ImportSucceeds /\ imp.src = "backup") =>
            LET doc == imp.doc[1]
            IN  /\ wallets' = {RestoredWallet(doc, bw) : bw \in DocWallets(doc)}
                /\ transactions' =
                      {RestoredTransaction(bt) : bt \in DocTransactions(doc)}
                /\ \A bw \in DocWallets(doc) :
                      bw.current_balance = DocBalance(doc, bw) =>
                         \E w \in wallets' :
                            /\ w.id = bw.id
                            /\ w.current_balance = bw.current_balance]_vars

\* an exported wallet with its image and a transaction with its reason are back
C5_Witness ==
    /\ imp.result = "true" /\ imp.src = "backup"
    /\ \E w \in wallets :
          /\ w.image_uri = WalletImagePath(w.id)
          /\ WalletImagePath(w.id) \in DOMAIN files
          /\ \E t \in transactions :
                t.wallet_id = w.id /\ t.reason = "lunch" /\ ~Balanced(w, {})

----------------------------------------------------------------------------
\* the document has no wallets sequence or no transactions sequence
LacksSequence(doc) ==
    doc.walletsKind \in {"missing", "object"} \/
    doc.transactionsKind \in {"missing", "object"}

(* C6: when the document read by importBackup has no wallets sequence or no
   transactions sequence (missing, or not an array), the step that reads it
   ends the import with an error and leaves the wallet rows, the transaction
   rows and the image directory as they were; the import never gets to a
   destructive step with such a document. *)
C6_InvalidDocumentRejected ==
    [][/\ (imp.pc = "read" /\ imp' # imp /\ LacksSequence(FileContent(imp.src))) =>
            /\ imp'.pc = "idle" /\ imp'.result = "throw"
            /\ UNCHANGED <<wallets, transactions, files>>
       /\ (imp'.pc \in {"clear", "wallets", "txns", "db"}) =>
            ~LacksSequence(imp'.doc[1])]_vars

\* a document without a transactions array was refused with rows and images there
C6_Witness ==
    /\ imp.result = "throw" /\ imp.err = "invalid" /\ imp.src = "noTransactions"
    /\ wallets # {} /\ transactions # {}
    /\ SavedImg \in DOMAIN files

----------------------------------------------------------------------------
(* C7 as stated: a failure to write one record's image during import does
   not abort the import; no importBackup ends with the error of an image
   write. *)
C7_ImageWriteFailureTolerated ==
    ~(imp.pc = "idle" /\ imp.result = "throw" /\ imp.err = "image_write")

----------------------------------------------------------------------------
\* the image file of a row can be there to read
ImageThere(row) == row.image_uri # NULL /\ row.image_uri \in DOMAIN files

\* what one turn of an export loop appends for a row
ExportedRowOk(row, out, stripped, readWorked) ==
    /\ stripped = row
    /\ (row.image_uri = NULL => out.image_base64 = NULL)
    /\ (~ImageThere(row) => out.image_base64 = NULL)
    /\ (out.image_base64 # NULL => out.image_base64 = files[row.image_uri])
    /\ ((ImageThere(row) /\ readWorked) => out.image_base64 # NULL)

(* C8: a turn of an export loop never ends the export: it appends the row
   with image_base64 = null when the row has no image_uri, the file is
   missing or the read fails, and with the content of the file otherwise;
   the document exportBackup writes holds every row the export began with. *)
C8_ExportDegradesToNull ==
    [][/\ (exp.pc = "wallets" /\ exp' # exp) =>
            LET n == Len(exp.outW) + 1
            IN  /\ exp'.pc # "idle" /\ exp'.result = "none"
                /\ Len(exp'.outW) = n
                /\ \A k \in 1..(n - 1) : exp'.outW[k] = exp.outW[k]
                /\ ExportedRowOk(exp.rawW[n], exp'.outW[n],
                                 WalletRowOf(exp'.outW[n]), ExportWallet(FALSE))
       /\ (exp.pc = "txns" /\ exp' # exp) =>
            LET n == Len(exp.outT) + 1
            IN  /\ exp'.pc # "idle" /\ exp'.result = "none"
                /\ Len(exp'.outT) = n /\ exp'.outW = exp.outW
                /\ \A k \in 1..(n - 1) : exp'.outT[k] = exp.outT[k]
                /\ ExportedRowOk(exp.rawT[n], exp'.outT[n],
                                 TxnRowOf(exp'.outT[n]), ExportTransaction(FALSE))
       /\ (exp.pc = "write" /\ exp'.result = "path") =>
            /\ Len(exp.outW) = Len(exp.rawW) /\ Len(exp.outT) = Len(exp.rawT)
            /\ backupFile'[1].wallets = exp.outW
            /\ backupFile'[1].transactions = exp.outT
            /\ backupFile'[1].walletsKind = "array"
            /\ backupFile'[1].transactionsKind = "array"]_vars

\* a written document with a wallet whose image was read and one whose was not
C8_Witness ==
    /\ exp.result = "path" /\ backupFile # <<>>
    /\ \E j, k \in 1..Len(backupFile[1].wallets) :
          /\ backupFile[1].wallets[j].image_uri # NULL
          /\ backupFile[1].wallets[j].image_base64 = NULL
          /\ backupFile[1].wallets[k].image_base64 = ImageData
    /\ backupFile[1].transactions # <<>>

----------------------------------------------------------------------------
(* C9: importBackup ends with false only at its first step, the file picker,
   with the wallet rows, the transaction rows and the image directory as
   they were; a cancelled picker gives false and no error; an import that
   ends after the image directory was cleared ends with true or an error. *)
C9_FalseOnlyWhenUntouched ==
    [][/\ (calls'.imports # calls.imports /\ ImportPick("canceled")) =>
            imp'.pc = "idle" /\ imp'.result = "false"
       /\ (imp' # imp /\ imp'.pc = "idle" /\ imp'.result = "false") =>
            /\ imp.pc = "idle"
            /\ UNCHANGED <<wallets, transactions, files>>
       /\ (imp.pc \in {"clear", "wallets", "txns", "db"} /\ imp'.pc = "idle") =>
            imp'.result \in {"true", "throw"}]_vars

\* the picker was cancelled with rows in the store and an image in the directory
C9_Witness ==
    /\ imp.result = "false" /\ imp.err = "canceled"
    /\ wallets # {} /\ transactions # {}
    /\ SavedImg \in DOMAIN files

----------------------------------------------------------------------------
(* C10: deleting a wallet removes exactly its transactions, so that
   getTransactionsByWallet for it is empty; every other wallet and every
   other wallet's transactions stay as they were, and the remaining wallets
   are still reconciled. *)
C10_CascadeDelete ==
    [][ \A id \in WalletIdPool :
          ( /\ last'.op = "deleteWallet" /\ WalletExists(wallets, id)
            /\ deleteWallet(id) )
          => /\ getTransactionsByWallet(transactions', id) = {}
             /\ ~WalletExists(wallets', id)
             /\ wallets' = {w \in wallets : w.id # id}
             /\ transactions' = {t \in transactions : t.wallet_id # id}
             /\ \A w \in wallets' : Balanced(w, transactions')
       ]_vars

\* a wallet with transactions was deleted while another wallet kept its own
C10_Witness ==
    /\ last.op = "deleteWallet"
    /\ last.cascaded > 0
    /\ \E w \in wallets : getTransactionsByWallet(transactions, w.id) # {}

----------------------------------------------------------------------------
\* the step is a call of queries.ts: nothing of the backup service moves
LedgerStep == UNCHANGED <<backupVars, queryVars>>

\* the call that just returned reconciles wallet w: it names w, or the
\* transaction it names was in w
Touches(w) ==
    /\ LedgerStep
    /\ last'.ok
    /\ last'.op \in {"createTransaction", "updateTransaction",
                     "deleteTransaction", "updateWallet"}
    /\ (last'.wid = w \/ last'.old = w)

(* C11: whatever a wallet's stored current_balance was, drifted or not, when
   a createTransaction, updateTransaction, deleteTransaction or updateWallet
   that touches the wallet returns, the wallet's current_balance is its
   initial_balance + sumIN - sumOUT. *)
C11_SelfHealing ==
    [][\A w \in WalletIdPool :
          (Touches(w) /\ WalletExists(wallets', w)) =>
             Balanced(WalletById(wallets', w), transactions')]_vars

\* an import stopped half way and left drifted wallets; a move of the
\* transaction it left has reconciled both
C11_Witness ==
    /\ imp.result = "throw" /\ imp.err = "db" /\ imp.src = "partial"
    /\ last.op = "updateTransaction" /\ last.ok
    /\ last.old = 1 /\ last.wid = 2
    /\ \A w \in wallets : Balanced(w, transactions) /\ w.current_balance # 999
    /\ Cardinality(wallets) = 2
    /\ transactions # {}

----------------------------------------------------------------------------
(* C12: when recalculateBalance(id) has returned, a second call on the same
   wallet with nothing in between changes nothing: the wallets after the
   second call are the wallets after the first.  The first call changes
   only the current_balance of that wallet and no transaction. *)
C12_RecalculateIdempotent ==
    [][(last'.op = "recalculateBalance" /\ LedgerStep) =>
          /\ recalculateBalance(wallets', transactions', last'.id) = wallets'
          /\ transactions' = transactions
          /\ {[w EXCEPT !.current_balance = 0] : w \in wallets'} =
             {[w EXCEPT !.current_balance = 0] : w \in wallets}
          /\ \A w \in wallets : w.id # last'.id => w \in wallets']_vars

\* recalculateBalance has reconciled a drifted wallet that has a transaction
C12_Witness ==
    /\ last.op = "recalculateBalance"
    /\ imp.result = "throw" /\ imp.err = "db" /\ imp.src = "partial"
    /\ \E w \in wallets :
          /\ w.id = last.id
          /\ Balanced(w, transactions)
          /\ w.current_balance = 55
          /\ getTransactionsByWallet(transactions, w.id) # {}
    /\ \E w \in wallets : w.id # last.id /\ w.current_balance = 999

----------------------------------------------------------------------------
\* the transactions of wallet id are one per element of shape, with its type
\* and amount
HasTransactions(txs, id, shape) ==
    /\ {[type |-> t.type, amount |-> t.amount] :
            t \in getTransactionsByWallet(txs, id)} = shape
    /\ Cardinality(getTransactionsByWallet(txs, id)) = Cardinality(shape)

InOf50000 == [type |-> "IN", amount |-> 50000]
OutOf20000 == [type |-> "OUT", amount |-> 20000]
OutOf30000 == [type |-> "OUT", amount |-> 30000]

(* C13: a wallet created with initialBalance 100000 holds 100000; with an IN
   of 50000, createTransaction OUT 20000 makes current_balance 130000; then
   updateTransaction of that OUT to 30000 makes it 120000; then
   deleteTransaction of that OUT makes it 150000. *)
C13_Scenario ==
    [][\A id \in WalletIdPool :
          LET before == getWalletById(wallets, id)
              after == getWalletById(wallets', id)
          IN  /\ createWallet("cash", 100000, NULL, NULL) /\ last'.id = id =>
                    /\ after.current_balance = 100000
                    /\ HasTransactions(transactions', id, {})
              /\ ( /\ WalletExists(wallets, id)
                   /\ before.initial_balance = 100000
                   /\ HasTransactions(transactions, id, {}) 
                   /\ createTransaction(id, "IN", 50000, NULL, NULL) ) =>
                    /\ after.current_balance = 150000
                    /\ HasTransactions(transactions', id, {InOf50000})
              /\ ( /\ WalletExists(wallets, id)
                   /\ before.initial_balance = 100000
                   /\ HasTransactions(transactions, id, {InOf50000})
                   /\ createTransaction(id, "OUT", 20000, NULL, NULL) ) =>
                    /\ after.current_balance = 130000
                    /\ HasTransactions(transactions', id, {InOf50000, OutOf20000})
              /\ ( /\ WalletExists(wallets, id)
                   /\ before.initial_balance = 100000
                   /\ HasTransactions(transactions, id, {InOf50000, OutOf20000})
                   /\ \E t \in transactions :
                         /\ t.wallet_id = id /\ t.type = "OUT"
                         /\ updateTransaction(t.id, id, "OUT", 30000, NULL, NULL) ) =>
                    /\ after.current_balance = 120000
                    /\ HasTransactions(transactions', id, {InOf50000, OutOf30000})
              /\ ( /\ WalletExists(wallets, id)
                   /\ before.initial_balance = 100000
                   /\ HasTransactions(transactions, id, {InOf50000, OutOf30000})
                   /\ \E t \in transactions :
                         /\ t.wallet_id = id /\ t.type = "OUT"
                         /\ deleteTransaction(t.id) ) =>
                    /\ after.current_balance = 150000
                    /\ HasTransactions(transactions', id, {InOf50000})]_vars

\* the outflow of 30000 was deleted and the wallet of 100000 holds 150000
C13_Witness ==
    /\ last.op = "deleteTransaction" /\ last.wid # NoId
    /\ \E w \in wallets :
          /\ w.id = last.wid
          /\ w.initial_balance = 100000
          /\ w.current_balance = 150000
          /\ HasTransactions(transactions, w.id, {InOf50000})

----------------------------------------------------------------------------
(* C14: updateWallet(id, name, initialBalance, imageUri, icon) on a wallet
   there is stores the name, the initialBalance, the imageUri and the icon
   (Wallet when none is given), and leaves current_balance = the given
   initialBalance + sumIN - sumOUT of the wallet's transactions; no
   transaction row and no other wallet is changed. *)
C14_UpdateWalletReconciles ==
    [][(last'.op = "updateWallet" /\ WalletExists(wallets, last'.id)) =>
          \A f \in WalletForms, b \in Balances :
             updateWallet(last'.id, f.name, b, f.imageUri, f.icon) =>
                LET id == last'.id
                    before == WalletById(wallets, id)
                    after == WalletById(wallets', id)
                IN  /\ after = [id |-> id, name |-> f.name,
                                initial_balance |-> b,
                                current_balance |->
                                    b + SumIn(transactions, id)
                                      - SumOut(transactions, id),
                                image_uri |-> f.imageUri,
                                icon |-> IF f.icon = NULL THEN "Wallet"
                                         ELSE f.icon,
                                created_at |-> before.created_at]
                    /\ transactions' = transactions
                    /\ wallets' \ {after} = wallets \ {before}]_vars

\* updateWallet gave a wallet with an inflow and an outflow its initial balance
\* back after updateWalletDirect had solved another one
C14_Witness ==
    /\ last.op = "updateWallet"
    /\ \E w \in wallets :
          /\ w.id = last.id
          /\ w.initial_balance = 50 /\ w.current_balance = 65
          /\ SumIn(transactions, w.id) = 20 /\ SumOut(transactions, w.id) = 5
    /\ Cardinality(wallets) = 2

----------------------------------------------------------------------------
(* C15: createWallet(name, initialBalance, ...) adds one wallet, with an id
   no wallet had, with current_balance = initial_balance = initialBalance
   and no transaction; the wallets and the transactions there were are
   unchanged. *)
C15_CreateWalletFresh ==
    [][(last'.op = "createWallet" /\ LedgerStep) =>
          \A f \in WalletForms, b \in Balances :
             createWallet(f.name, b, f.imageUri, f.icon) =>
                LET id == last'.id
                IN  /\ ~WalletExists(wallets, id)
                    /\ Cardinality(wallets') = Cardinality(wallets) + 1
                    /\ wallets \subseteq wallets'
                    /\ \A w \in wallets' \ wallets :
                          /\ w.id = id /\ w.name = f.name
                          /\ w.initial_balance = b /\ w.current_balance = b
                    /\ getTransactionsByWallet(transactions', id) = {}
                    /\ transactions' = transactions]_vars

\* a second wallet was created beside a wallet that has transactions
C15_Witness ==
    /\ last.op = "createWallet"
    /\ Cardinality(wallets) = 2
    /\ \E w \in wallets : w.id = last.id /\ w.current_balance = 50
    /\ \E w \in wallets :
          w.id # last.id /\ getTransactionsByWallet(transactions, w.id) # {}

----------------------------------------------------------------------------
\* the call that just returned or threw named a wallet that is not there
MissingWalletCall ==
    /\ LedgerStep
    /\ last'.op \in {"updateWallet", "updateWalletDirect", "deleteWallet",
                     "recalculateBalance"}
    /\ ~WalletExists(wallets, last'.id)

\* the call that just returned or threw named a transaction that is not there
MissingTransactionCall ==
    /\ LedgerStep
    /\ last'.op \in {"updateTransaction", "deleteTransaction"}
    /\ ~TxnExists(transactions, last'.id)

\* the getters on an id that is not there
MissingIdReads ==
    \A id \in WalletIdPool :
        ~WalletExists(wallets', id) =>
            /\ getWalletById(wallets', id) = NULL
            /\ getTransactionsByWallet(transactions', id) = {}

(* C16 as stated: updateWallet, updateWalletDirect, deleteWallet,
   updateTransaction, deleteTransaction and recalculateBalance on an id that
   does not exist raise no error and leave every wallet row and every
   transaction row unchanged; getWalletById and getTransactionsByWallet on a
   missing id give null and no row. *)
C16_MissingIdIsNoOp ==
    [][/\ (MissingWalletCall \/ MissingTransactionCall) =>
            /\ last'.ok
            /\ UNCHANGED <<wallets, transactions>>
       /\ MissingIdReads]_vars

(* C16: the same, except for updateTransaction on a transaction id that does
   not exist: it raises no error and changes no transaction row, and it
   still reconciles the wallet its walletId argument names, so that this
   wallet's current_balance becomes initial_balance + sumIN - sumOUT (a
   change when it had drifted) while every other field and every other
   wallet stay as they were. *)
C16_MissingIdOnlyReconciles ==
    [][/\ MissingWalletCall =>
            /\ last'.ok
            /\ UNCHANGED <<wallets, transactions>>
       /\ (MissingTransactionCall /\ last'.op = "deleteTransaction") =>
            /\ last'.ok
            /\ UNCHANGED <<wallets, transactions>>
       /\ (MissingTransactionCall /\ last'.op = "updateTransaction") =>
            /\ last'.ok
            /\ transactions' = transactions
            /\ wallets' =
                  { IF w.id = last'.wid
                    THEN [w EXCEPT !.current_balance =
                             w.initial_balance + SumIn(transactions, w.id)
                                               - SumOut(transactions, w.id)]
                    ELSE w : w \in wallets }
       /\ MissingIdReads]_vars

\* updateTransaction named a transaction that is not there and a drifted
\* wallet, which is reconciled now, while the other wallet still holds 999
C16_Witness ==
    /\ last.op = "updateTransaction" /\ last.ok
    /\ ~TxnExists(transactions, last.id) /\ last.old = NoId
    /\ imp.result = "throw" /\ imp.err = "db" /\ imp.src = "partial"
    /\ \E w \in wallets :
          /\ w.id = last.wid
          /\ w.current_balance # 999 /\ Balanced(w, transactions)
    /\ \E w \in wallets : w.id # last.wid /\ w.current_balance = 999

----------------------------------------------------------------------------
\* the calendar month of an instant in the zone that is offset hours from UTC
MonthOfInstant(t, offset) == (t + offset) \div MonthLen

\* getMonthlyStats has just returned
MonthlyStatsReturned == view' # view /\ view'.op = "getMonthlyStats"

\* the transactions a query scoped to walletId (or to none) looks at
InScope(txs, walletId) ==
    {t \in txs : walletId = NoId \/ t.wallet_id = walletId}

(* C17: getMonthlyStats returns six entries, for the six months that end
   with the current month of the device, oldest first; an entry for a month
   in which no transaction of the scope was created, by the device's
   calendar and by the UTC calendar, has totalIn = 0 and totalOut = 0. *)
C17_SixMonthsZeroWhenEmpty ==
    [][MonthlyStatsReturned =>
          LET stats == view'.stats
              current == MonthOfInstant(clock, tz)
              scope == InScope(transactions, view'.walletId)
          IN  /\ DOMAIN stats = 1..6
              /\ \A k \in 1..6 : stats[k].month = current - (6 - k)
              /\ \A k \in 1..5 : stats[k + 1].month = stats[k].month + 1
              /\ \A k \in 1..6 :
                    (\A t \in scope :
                        /\ MonthOfInstant(t.created_at, tz) # stats[k].month
                        /\ MonthOfInstant(t.created_at, 0) # stats[k].month) =>
                       stats[k].totalIn = 0 /\ stats[k].totalOut = 0]_vars

\* on a device away from UTC, the months before the first transaction are
\* zero and a month with transactions is not
C17_Witness ==
    /\ view.op = "getMonthlyStats" /\ tz # 0
    /\ \E k \in 1..6 : view.stats[k].totalIn > 0 /\ view.stats[k].totalOut > 0
    /\ \E k \in 1..6 : view.stats[k].totalIn = 0 /\ view.stats[k].totalOut = 0
    /\ view.stats[6].month = MonthOfInstant(clock, tz)
    /\ view.stats[1].month < 0

----------------------------------------------------------------------------
(* C18 as stated: in every timezone, the six totals of getMonthlyStats
   count each transaction of the trailing six months once: they add up to
   the total of the transactions of the scope created since the first of the
   six months began, by the device's calendar and by the UTC calendar. *)
C18_EachTransactionCountedOnce ==
    [][MonthlyStatsReturned =>
          LET stats == view'.stats
              first == stats[1].month * MonthLen
              trailing == {t \in InScope(transactions, view'.walletId) :
                              /\ t.created_at >= first
                              /\ t.created_at + tz >= first}
              Total(type) == SumAmount({t \in trailing : t.type = type})
          IN  /\ stats[1].totalIn + stats[2].totalIn + stats[3].totalIn
                 + stats[4].totalIn + stats[5].totalIn + stats[6].totalIn
                 = Total("IN")
              /\ stats[1].totalOut + stats[2].totalOut + stats[3].totalOut
                 + stats[4].totalOut + stats[5].totalOut + stats[6].totalOut
                 = Total("OUT")]_vars

----------------------------------------------------------------------------
\* the sum over the wallets of one field of their getOverallStats
OverWallets(ws, txs, field) ==
    SumAmount({[id |-> w.id, amount |-> getOverallStats(txs, w.id)[field]] :
                  w \in ws})

(* C19: in every state the ledger calls leave, for each wallet w,
   getOverallStats(w).totalIn - getOverallStats(w).totalOut =
   w.current_balance - w.initial_balance and txCount is the number of w's
   transactions; the totals and the count of getOverallStats() without a
   wallet are the sums of those of the wallets. *)
C19_StatsAgreeWithBalances ==
    /\ \A w \in wallets :
          LET s == getOverallStats(transactions, w.id)
          IN  /\ s.totalIn - s.totalOut = w.current_balance - w.initial_balance
              /\ s.txCount = Cardinality({t \in transactions : t.wallet_id = w.id})
    /\ LET all == getOverallStats(transactions, NoId)
       IN  /\ all.totalIn = OverWallets(wallets, transactions, "totalIn")
           /\ all.totalOut = OverWallets(wallets, transactions, "totalOut")
           /\ all.txCount = OverWallets(wallets, transactions, "txCount")

\* two wallets, one with an inflow of 20 and the other with an outflow of 5
C19_Witness ==
    /\ Cardinality(wallets) = 2
    /\ \E v, w \in wallets :
          /\ v.id # w.id
          /\ getOverallStats(transactions, v.id) =
                [totalIn |-> 20, totalOut |-> 0, txCount |-> 1]
          /\ getOverallStats(transactions, w.id) =
                [totalIn |-> 0, totalOut |-> 5, txCount |-> 1]
          /\ v.current_balance = v.initial_balance + 20
          /\ w.current_balance = w.initial_balance - 5
    /\ getOverallStats(transactions, NoId) =
          [totalIn |-> 20, totalOut |-> 5, txCount |-> 2]

----------------------------------------------------------------------------
\* importData is between two of its statements
ImportDataRuns == idb.pc # "idle"

\* the ids of the rows importData was given
PayloadWalletIds ==
    {idb.data[1].wallets[k].id : k \in 1..Len(idb.data[1].wallets)}
PayloadTransactionIds ==
    {idb.data[1].transactions[k].id : k \in 1..Len(idb.data[1].transactions)}

(* C20: while importData runs, a step that deletes a wallet row starts from
   no transaction row at all; a step that inserts a transaction row starts
   with every wallet of the document inserted; a step that reconciles a
   wallet starts with every transaction of the document inserted, and no
   row is inserted after it.  When importData returns, the rows are those
   of the importData of the one-step model. *)
C20_ImportOrder ==
    [][ImportDataRuns =>
          /\ (\E w \in wallets : ~WalletExists(wallets', w.id)) =>
                transactions = {}
          /\ (\E t \in transactions' : ~TxnExists(transactions, t.id)) =>
                /\ \A id \in PayloadWalletIds : WalletExists(wallets, id)
                /\ \A w \in wallets : w.id \in PayloadWalletIds
          /\ (\E w \in wallets' : WalletExists(wallets, w.id) /\ w \notin wallets) =>
                /\ \A id \in PayloadTransactionIds : TxnExists(transactions, id)
                /\ \A id \in PayloadWalletIds : WalletExists(wallets, id)
                /\ transactions' = transactions
          /\ (idb'.pc = "idle" /\ idb'.result = "returned") =>
                LET r == importData(idb.data[1])
                IN  r.ok /\ wallets' = r.wallets /\ transactions' = r.transactions
          /\ (idb'.pc = "idle" /\ idb'.result = "thrown") =>
                LET r == importData(idb.data[1])
                IN  ~r.ok /\ wallets' = r.wallets /\ transactions' = r.transactions]_vars

\* importData has returned: the transaction the ledger had created is gone,
\* the document's are there and its wallet is reconciled
C20_Witness ==
    /\ idb.pc = "idle" /\ idb.result = "returned"
    /\ last.op = "createTransaction" /\ last.ok /\ last.id = 2
    /\ ~TxnExists(transactions, 2)
    /\ \E w \in wallets : w.id = 1 /\ w.current_balance = 30
    /\ \E t \in transactions : t.id = 1 /\ t.type = "OUT" /\ t.amount = 20

----------------------------------------------------------------------------
\* the image files the running importBackup has written so far
WrittenByImport ==
    {imp.outW[k].image_uri : k \in 1..Len(imp.outW)} \cup
    {imp.outT[k].image_uri : k \in 1..Len(imp.outT)}

(* C21 as stated: importBackup writes no file before the document has passed
   the validation; the step that follows the validation leaves the image
   directory without any file, and only the steps after it write image
   files; an image file this import has written stays until the import
   ends. *)
C21_ClearedBeforeImagesWritten ==
    [][ /\ (imp.pc \in {"idle", "read"} /\ imp' # imp) => files' = files
        /\ (imp.pc = "clear" /\ imp' # imp) =>
              DOMAIN files' \cap ImageDirPaths = {}
        /\ (imp.pc \in {"wallets", "txns", "db"}) =>
              \A p \in WrittenByImport \cap DOMAIN files : p \in DOMAIN files'
      ]_vars

----------------------------------------------------------------------------
\* the image references of the stored rows
StoredImageUris(ws, txs) ==
    {w.image_uri : w \in ws} \cup {t.image_uri : t \in txs}

\* the image_uri importBackup gives a row of the document
ExpectedImageUri(row, path) ==
    IF Truthy(row.image_base64) THEN path ELSE NULL

(* C22 as stated: when importBackup returns true, the files of the image
   directory are exactly the non-null image_uri values of the stored wallets
   and transactions, and every stored row has the path derived from its id
   when its row of the document carried a non-empty image_base64, and null
   otherwise. *)
C22_NoOrphanNoDanglingImage ==
    [][ (imp.pc = "db" /\ imp'.pc = "idle" /\ imp'.result = "true") =>
          /\ DOMAIN files' \cap ImageDirPaths
                = StoredImageUris(wallets', transactions') \ {NULL}
          /\ \A k \in 1..Len(imp.doc[1].wallets) :
                LET bw == imp.doc[1].wallets[k]
                IN  \E w \in wallets' :
                      /\ w.id = bw.id
                      /\ w.image_uri =
                           ExpectedImageUri(bw, WalletImagePath(bw.id))
          /\ \A k \in 1..Len(imp.doc[1].transactions) :
                LET bt == imp.doc[1].transactions[k]
                IN  \E t \in transactions' :
                      /\ t.id = bt.id
                      /\ t.image_uri =
                           ExpectedImageUri(bt, TxnImagePath(bt.id))
      ]_vars

----------------------------------------------------------------------------
(* C23: a call of updateWalletDirect creates, changes and deletes no
   transaction and no wallet other than the one it names; of that wallet it
   leaves id, image_uri and created_at as they were, and it stores the two
   balances together: the state after the call has the requested
   current_balance and the initial_balance solved from it, and there is no
   state between with one of the two written. *)
C23_UpdateWalletDirectFrame ==
    [][ (last'.op = "updateWalletDirect" /\ UNCHANGED <<clock, files>>) =>
          /\ transactions' = transactions
          /\ Cardinality(wallets') = Cardinality(wallets)
          /\ \A w \in wallets :
                IF w.id = last'.id
                THEN \E n \in wallets' :
                        /\ n.id = w.id
                        /\ n.image_uri = w.image_uri
                        /\ n.created_at = w.created_at
                        /\ n.current_balance \in DirectBalances
                        /\ n.initial_balance =
                              n.current_balance - SumIn(transactions, w.id)
                                                + SumOut(transactions, w.id)
                ELSE w \in wallets'
      ]_vars

\* updateWalletDirect has moved the initial_balance of a wallet that has a
\* picked image and was created in the second hour, next to another wallet
C23_Witness ==
    /\ last.op = "updateWalletDirect"
    /\ Cardinality(wallets) = 2
    /\ transactions # {}
    /\ \E w \in wallets :
          /\ w.id = last.id
          /\ w.name = "bank"
          /\ w.image_uri = SavedImg
          /\ w.created_at = 1
          /\ w.initial_balance # w.current_balance

----------------------------------------------------------------------------
(* C24 as stated: getDatabase gives the handle only while the database is
   open; it throws exactly while no initDatabase has returned true since the
   module was loaded or the database was last closed; and an initDatabase
   called while the database is open returns true without opening it
   again. *)
C24_GetDatabaseOnlyAfterSuccess ==
    [][ /\ (dbm'.op = "getDatabase") =>
              /\ (dbm'.result = "handle") => dbm'.db
              /\ (dbm'.result = "throw") <=> ~dbm'.ready
        /\ (dbm.db /\ dbm' # dbm /\ dbm'.op = "initDatabase") =>
              /\ dbm'.result = "true"
              /\ dbm'.opens = dbm.opens
      ]_vars

----------------------------------------------------------------------------
(* C28 as stated: whenever initDatabase has returned true, the wallets table
   and the transactions table exist and foreign-key enforcement is on, also
   when the call before it opened the database and then failed. *)
C28_TrueMeansSchemaCreated ==
    (dbm.op = "initDatabase" /\ dbm.result = "true") =>
        /\ dbm.walletsTable
        /\ dbm.transactionsTable
        /\ dbm.foreignKeys

----------------------------------------------------------------------------
(* C30: in every state reached through initDatabase, getDatabase and
   closeDatabase, failed opens and repeated calls included,
   isDatabaseAvailable() is true exactly when the module holds a handle,
   which is exactly when getDatabase() does not throw. *)
C30_FlagAgreesWithHandle ==
    /\ isDatabaseAvailable <=> dbm.db
    /\ isDatabaseAvailable <=> (getDatabase.result = "handle")

\* the database was closed and opened again, and the schema failed on the
\* second connection: the flag is on and the handle is held
C30_Witness ==
    /\ dbm.opens = MaxOpens
    /\ dbm.op = "initDatabase"
    /\ dbm.result = "throw"
    /\ isDatabaseAvailable

----------------------------------------------------------------------------
\* the queries of queries.ts the store's mutating actions begin with
StoreMutations ==
    {"createWallet", "updateWallet", "deleteWallet",
     "createTransaction", "updateTransaction", "deleteTransaction"}

\* the cached list holds the rows of the wallets table, each once
CacheMatches(cached, ws) ==
    /\ Len(cached) = Cardinality(ws)
    /\ {cached[k] : k \in 1..Len(cached)} = ws

(* C29 as stated: once addWallet, editWallet, removeWallet, addTransaction,
   editTransaction or removeTransaction has returned, the wallets the store
   caches are the wallets of the database, with their current_balance. *)
C29_CacheEqualsDatabase ==
    (store.isReady /\ last.op \in StoreMutations) =>
        CacheMatches(store.wallets, wallets)

----------------------------------------------------------------------------
\* the row of the document the running importData inserts next refers to no
\* stored wallet, or has a type that is neither IN nor OUT
NextRowUnacceptable ==
    /\ idb.pc = "insertTransactions"
    /\ idb.i <= Len(idb.data[1].transactions)
    /\ LET row == idb.data[1].transactions[idb.i]
       IN  ~WalletExists(wallets, row.wallet_id) \/ row.type \notin Types

(* C25: in every state, those inside importData included, every stored
   transaction names a stored wallet and has the type IN or OUT; a
   createTransaction, or an updateTransaction of a stored transaction, that
   names a wallet which is not stored ends with an error and changes no row;
   an insert of importData for such a row, or for a row of another type,
   throws and stores nothing. *)
C25_ReferentialIntegrity ==
    [][ /\ \A t \in transactions' :
              WalletExists(wallets', t.wallet_id) /\ t.type \in Types
        /\ ( /\ last' # last
             /\ last'.op \in {"createTransaction", "updateTransaction"}
             /\ ~WalletExists(wallets, last'.wid)
             /\ last'.op = "updateTransaction" =>
                   TxnExists(transactions, last'.id) ) =>
              /\ ~last'.ok
              /\ transactions' = transactions
              /\ wallets' = wallets
        /\ NextRowUnacceptable =>
              /\ idb'.pc = "idle"
              /\ idb'.result = "thrown"
              /\ transactions' = transactions
      ]_vars

\* importData has thrown on a row of a missing wallet and left a stored
\* transaction behind; that transaction's move to a wallet deleted since
\* was rejected
C25_Witness ==
    /\ idb.result = "thrown"
    /\ transactions # {}
    /\ last.op = "updateTransaction"
    /\ ~last.ok
    /\ ~WalletExists(wallets, last.wid)

----------------------------------------------------------------------------
\* importBackup has been called and has not returned or thrown
ImportInFlight == imp.pc # "idle"

\* the row the export reads next has an image that was there when the export
\* started and is not there now
ReadsDeletedImage(raw, out) ==
    /\ Len(out) < Len(raw)
    /\ LET uri == raw[Len(out) + 1].image_uri
       IN  /\ uri \in exp.present
           /\ uri \notin DOMAIN files

(* C26 as stated: in no state with an importBackup in flight does a stored
   wallet or transaction have a non-null image_uri that names no file, and no
   step of an exportBackup finds missing, and so records with image_base64
   null, an image that was there when the export started. *)
C26_ImportIsolated ==
    [][ /\ ImportInFlight' =>
              StoredImageUris(wallets', transactions') \ {NULL}
                  \subseteq DOMAIN files'
        /\ (exp.pc = "wallets" /\ exp' # exp) =>
              ~ReadsDeletedImage(exp.rawW, exp.outW)
        /\ (exp.pc = "txns" /\ exp' # exp) =>
              ~ReadsDeletedImage(exp.rawT, exp.outT)
      ]_vars

----------------------------------------------------------------------------
\* the call that just returned is a createTransaction, a deleteTransaction or
\* an updateTransaction of a stored transaction that stays in its wallet
SameWalletTransactionStep ==
    /\ last'.op \in {"createTransaction", "deleteTransaction",
                     "updateTransaction"}
    /\ LedgerStep
    /\ last'.op = "updateTransaction" => last'.old = last'.wid

(* C27: createTransaction, deleteTransaction and an updateTransaction that
   keeps the transaction in its wallet leave every other wallet as it was,
   wallets whose current_balance has drifted included, add and remove no
   wallet, change on the transaction's own wallet nothing but
   current_balance, and leave every transaction other than the one named as
   it was. *)
C27_TransactionFrame ==
    [][ SameWalletTransactionStep =>
          /\ {w.id : w \in wallets'} = {w.id : w \in wallets}
          /\ \A w \in wallets : w.id # last'.wid => w \in wallets'
          /\ \A w \in wallets : w.id = last'.wid =>
                \E v \in wallets' :
                    v = [w EXCEPT !.current_balance = v.current_balance]
          /\ \A t \in transactions : t.id # last'.id => t \in transactions'
          /\ \A t \in transactions' : t.id # last'.id => t \in transactions
      ]_vars

\* a transaction was just created in one wallet while another wallet, left
\* by an import that threw, still has a current_balance that is not what its
\* transactions give
C27_Witness ==
    /\ last.op = "createTransaction"
    /\ last.ok
    /\ \E w \in wallets :
          /\ w.id # last.wid
          /\ w.current_balance # w.initial_balance
                + TotalOf(transactions, w.id, "IN")
                - TotalOf(transactions, w.id, "OUT")

====
